---- MODULE Spec2Model ----
(***************************************************************************)
(* A model of the inference-and-explanation pipeline of the HR attrition   *)
(* dashboard (src/main.py): HRFeatureCategorizer (schema and the           *)
(* label-to-code conversion of create_hr_input_form), prepare_model_input, *)
(* make_prediction, create_lime_explanation and the request handler of     *)
(* main_app.                                                               *)
(*                                                                         *)
(* Conventions.                                                            *)
(*  - A Python dict is a sequence of <<key, value>> pairs with distinct    *)
(*    keys, in insertion order (dicts iterate in insertion order).         *)
(*  - None is <<>>, any other optional value x is <<x>>.                   *)
(*  - Probabilities, risk scores and explanation weights are integers in   *)
(*    thousandths (Milli = 1.0).  The coefficients of the fallback formula *)
(*    (0.3, 0.2, 0.3/4, 0.2/4, 0.05, 0.95, 0.5) are whole thousandths, so  *)
(*    the arithmetic is exact; for the codes the schema produces, the      *)
(*    binary64 results of the Python expression round to these values and  *)
(*    fall on the same side of 0.5.                                        *)
(***************************************************************************)
EXTENDS Integers, Sequences, FiniteSets, TLC

(***************************************************************************)
(* Generic helpers: Python dict and list operations.                       *)
(***************************************************************************)
None == <<>>

Some(x) == <<x>>

Range(s) == {s[i] : i \in 1..Len(s)}

\* dict.keys()
DictKeys(d) == {d[i][1] : i \in 1..Len(d)}

\* key in d
Has(d, k) == \E i \in 1..Len(d) : d[i][1] = k

\* d[k]
Lookup(d, k) == d[CHOOSE i \in 1..Len(d) : d[i][1] = k][2]

\* d.get(k, default)
Get(d, k, default) == IF Has(d, k) THEN Lookup(d, k) ELSE default

\* options.get(value, default) on a label -> code mapping (a TLA+ function)
MapGet(m, label, default) == IF label \in DOMAIN m THEN m[label] ELSE default

\* min(max(x, lo), hi)
Max2(a, b) == IF a >= b THEN a ELSE b

Min2(a, b) == IF a <= b THEN a ELSE b

(***************************************************************************)
(* Feature schema: HRFeatureCategorizer._define_essential_hr_features.     *)
(***************************************************************************)
SatisfactionOptions == ("Rendah" :> 1) @@ ("Sedang" :> 2) @@ ("Tinggi" :> 3) @@ ("Sangat Tinggi" :> 4)

hr_features ==
     ("Age" :> [type |-> "number", min |-> 18, max |-> 65, default |-> 32])
  @@ ("Gender" :> [type |-> "selectbox", default |-> "Laki-laki",
                   options |-> ("Perempuan" :> 0) @@ ("Laki-laki" :> 1)])
  @@ ("MaritalStatus" :> [type |-> "selectbox", default |-> "Menikah",
                   options |-> ("Lajang" :> 0) @@ ("Menikah" :> 1) @@ ("Bercerai" :> 2)])
  @@ ("DistanceFromHome" :> [type |-> "number", min |-> 1, max |-> 50, default |-> 7])
  @@ ("JobLevel" :> [type |-> "selectbox", default |-> "Menengah",
                   options |-> ("Pemula" :> 1) @@ ("Junior" :> 2) @@ ("Menengah" :> 3)
                            @@ ("Senior" :> 4) @@ ("Eksekutif" :> 5)])
  @@ ("YearsAtCompany" :> [type |-> "number", min |-> 0, max |-> 40, default |-> 5])
  @@ ("YearsInCurrentRole" :> [type |-> "number", min |-> 0, max |-> 20, default |-> 2])
  @@ ("YearsSinceLastPromotion" :> [type |-> "number", min |-> 0, max |-> 20, default |-> 1])
  @@ ("OverTime" :> [type |-> "selectbox", default |-> "Tidak",
                   options |-> ("Tidak" :> 0) @@ ("Ya" :> 1)])
  @@ ("BusinessTravel" :> [type |-> "selectbox", default |-> "Jarang",
                   options |-> ("Tidak Pernah" :> 0) @@ ("Jarang" :> 1) @@ ("Sering" :> 2)])
  @@ ("MonthlyIncome" :> [type |-> "number", min |-> 1000, max |-> 25000, default |-> 5000])
  @@ ("PercentSalaryHike" :> [type |-> "slider", min |-> 0, max |-> 25, default |-> 13])
  @@ ("StockOptionLevel" :> [type |-> "selectbox", default |-> "Dasar",
                   options |-> ("Tidak Ada" :> 0) @@ ("Dasar" :> 1) @@ ("Standar" :> 2)
                            @@ ("Premium" :> 3)])
  @@ ("JobSatisfaction" :> [type |-> "selectbox", default |-> "Tinggi",
                   options |-> SatisfactionOptions])
  @@ ("WorkLifeBalance" :> [type |-> "selectbox", default |-> "Lebih Baik",
                   options |-> ("Buruk" :> 1) @@ ("Baik" :> 2) @@ ("Lebih Baik" :> 3)
                            @@ ("Terbaik" :> 4)])
  @@ ("EnvironmentSatisfaction" :> [type |-> "selectbox", default |-> "Tinggi",
                   options |-> SatisfactionOptions])
  @@ ("PerformanceRating" :> [type |-> "selectbox", default |-> "Sangat Baik",
                   options |-> ("Rendah" :> 1) @@ ("Baik" :> 2) @@ ("Sangat Baik" :> 3)
                            @@ ("Luar Biasa" :> 4)])

\* The keys of the schema, in the order the form fills input_data.
FormKeys ==
  << "Age", "Gender", "MaritalStatus", "DistanceFromHome", "JobLevel", "YearsAtCompany",
     "YearsInCurrentRole", "YearsSinceLastPromotion", "OverTime", "BusinessTravel",
     "MonthlyIncome", "PercentSalaryHike", "StockOptionLevel", "JobSatisfaction",
     "WorkLifeBalance", "EnvironmentSatisfaction", "PerformanceRating" >>

CategoricalKeys == {k \in DOMAIN hr_features : hr_features[k].type = "selectbox"}

NumericKeys == DOMAIN hr_features \ CategoricalKeys

(***************************************************************************)
(* The conversion at the end of create_hr_input_form ("normalize").        *)
(***************************************************************************)
\* The second table, used for keys that are not in hr_features.
mapping ==
     ("Gender" :> hr_features["Gender"].options)
  @@ ("MaritalStatus" :> hr_features["MaritalStatus"].options)
  @@ ("JobLevel" :> hr_features["JobLevel"].options)
  @@ ("OverTime" :> hr_features["OverTime"].options)
  @@ ("BusinessTravel" :> hr_features["BusinessTravel"].options)
  @@ ("StockOptionLevel" :> hr_features["StockOptionLevel"].options)
  @@ ("JobSatisfaction" :> SatisfactionOptions)
  @@ ("WorkLifeBalance" :> hr_features["WorkLifeBalance"].options)
  @@ ("EnvironmentSatisfaction" :> SatisfactionOptions)
  @@ ("PerformanceRating" :> hr_features["PerformanceRating"].options)

\* A mutation of NormalizeValue: an unrecognised label takes the code of the
\* feature's default label instead of 0.
NormalizeValue_DefaultLabel(key, value) ==
  IF key \in DOMAIN hr_features
    THEN IF hr_features[key].type = "selectbox"
           THEN MapGet(hr_features[key].options, value,
                       hr_features[key].options[hr_features[key].default])
           ELSE value
    ELSE IF key \in DOMAIN mapping THEN MapGet(mapping[key], value, 0) ELSE value

\* A mutation of NormalizeValue: a number is brought into the feature's declared range.
NormalizeValue_Clamped(key, value) ==
  IF key \in DOMAIN hr_features
    THEN IF hr_features[key].type = "selectbox" /\ "options" \in DOMAIN hr_features[key]
           THEN MapGet(hr_features[key].options, value, 0)
           ELSE Min2(Max2(value, hr_features[key].min), hr_features[key].max)
    ELSE IF key \in DOMAIN mapping THEN MapGet(mapping[key], value, 0) ELSE value

\* One iteration of the loop: the value stored under numeric_data[key].
NormalizeValue(key, value) ==
  IF key \in DOMAIN hr_features
    THEN IF hr_features[key].type = "selectbox" /\ "options" \in DOMAIN hr_features[key]
           THEN MapGet(hr_features[key].options, value, 0)
           ELSE value
    ELSE IF key \in DOMAIN mapping THEN MapGet(mapping[key], value, 0) ELSE value

\* numeric_data: one entry per item of input_data, in the same order.
Normalize(data) == [i \in 1..Len(data) |-> <<data[i][1], NormalizeValue(data[i][1], data[i][2])>>]

(***************************************************************************)
(* prepare_model_input ("build").  A one-row DataFrame is the sequence of  *)
(* its row's values, aligned with the column list.                         *)
(***************************************************************************)
\* feature_mapping.items(): semantic key, model column.
\* A mutation of feature_mapping: the years in the current role go to the column of the
\* years at the company.
feature_mapping_WrongColumn ==
  << <<"Age", "Age">>, <<"MonthlyIncome", "MonthlyIncome">>,
     <<"YearsAtCompany", "YearsAtCompany">>, <<"YearsInCurrentRole", "YearsAtCompany">>,
     <<"YearsSinceLastPromotion", "YearsSinceLastPromotion">>,
     <<"DistanceFromHome", "DistanceFromHome">>, <<"PercentSalaryHike", "PercentSalaryHike">>,
     <<"JobLevel", "JobLevel">>, <<"StockOptionLevel", "StockOptionLevel">>,
     <<"JobSatisfaction", "JobSatisfaction">>, <<"WorkLifeBalance", "WorkLifeBalance">>,
     <<"EnvironmentSatisfaction", "EnvironmentSatisfaction">>,
     <<"PerformanceRating", "PerformanceRating">> >>

feature_mapping ==
  << <<"Age", "Age">>, <<"MonthlyIncome", "MonthlyIncome">>,
     <<"YearsAtCompany", "YearsAtCompany">>, <<"YearsInCurrentRole", "YearsInCurrentRole">>,
     <<"YearsSinceLastPromotion", "YearsSinceLastPromotion">>,
     <<"DistanceFromHome", "DistanceFromHome">>, <<"PercentSalaryHike", "PercentSalaryHike">>,
     <<"JobLevel", "JobLevel">>, <<"StockOptionLevel", "StockOptionLevel">>,
     <<"JobSatisfaction", "JobSatisfaction">>, <<"WorkLifeBalance", "WorkLifeBalance">>,
     <<"EnvironmentSatisfaction", "EnvironmentSatisfaction">>,
     <<"PerformanceRating", "PerformanceRating">> >>

\* A mutation of categorical_mappings: the two marital-status tests are exchanged.
categorical_mappings_Swapped(hr_input) ==
  << <<"Gender_Male", IF Get(hr_input, "Gender", 0) = 1 THEN 1 ELSE 0>>,
     <<"MaritalStatus_Married", IF Get(hr_input, "MaritalStatus", 0) = 0 THEN 1 ELSE 0>>,
     <<"MaritalStatus_Single", IF Get(hr_input, "MaritalStatus", 0) = 1 THEN 1 ELSE 0>>,
     <<"OverTime_Yes", IF Get(hr_input, "OverTime", 0) = 1 THEN 1 ELSE 0>>,
     <<"BusinessTravel_Travel_Frequently", IF Get(hr_input, "BusinessTravel", 0) = 2 THEN 1 ELSE 0>>,
     <<"BusinessTravel_Travel_Rarely", IF Get(hr_input, "BusinessTravel", 0) = 1 THEN 1 ELSE 0>> >>

\* A mutation of categorical_mappings: the two business-travel codes are exchanged.
categorical_mappings_TravelExchanged(hr_input) ==
  << <<"Gender_Male", IF Get(hr_input, "Gender", 0) = 1 THEN 1 ELSE 0>>,
     <<"MaritalStatus_Married", IF Get(hr_input, "MaritalStatus", 0) = 1 THEN 1 ELSE 0>>,
     <<"MaritalStatus_Single", IF Get(hr_input, "MaritalStatus", 0) = 0 THEN 1 ELSE 0>>,
     <<"OverTime_Yes", IF Get(hr_input, "OverTime", 0) = 1 THEN 1 ELSE 0>>,
     <<"BusinessTravel_Travel_Frequently", IF Get(hr_input, "BusinessTravel", 0) = 1 THEN 1 ELSE 0>>,
     <<"BusinessTravel_Travel_Rarely", IF Get(hr_input, "BusinessTravel", 0) = 2 THEN 1 ELSE 0>> >>

\* categorical_mappings.items(): indicator column, synthesized value.
categorical_mappings(hr_input) ==
  << <<"Gender_Male", IF Get(hr_input, "Gender", 0) = 1 THEN 1 ELSE 0>>,
     <<"MaritalStatus_Married", IF Get(hr_input, "MaritalStatus", 0) = 1 THEN 1 ELSE 0>>,
     <<"MaritalStatus_Single", IF Get(hr_input, "MaritalStatus", 0) = 0 THEN 1 ELSE 0>>,
     <<"OverTime_Yes", IF Get(hr_input, "OverTime", 0) = 1 THEN 1 ELSE 0>>,
     <<"BusinessTravel_Travel_Frequently", IF Get(hr_input, "BusinessTravel", 0) = 2 THEN 1 ELSE 0>>,
     <<"BusinessTravel_Travel_Rarely", IF Get(hr_input, "BusinessTravel", 0) = 1 THEN 1 ELSE 0>> >>

\* A mutation of EmptyFrame: the frame is filled with -1 in place of 0.
EmptyFrame_NoFill(feature_names) ==
  IF feature_names = None THEN <<>> ELSE [i \in 1..Len(feature_names[1]) |-> -1]

\* pd.DataFrame(index=[0], columns=feature_names).fillna(0); columns=None gives no column.
EmptyFrame(feature_names) ==
  IF feature_names = None THEN <<>> ELSE [i \in 1..Len(feature_names[1]) |-> 0]

\* The columns of the frame built for feature_names.
Columns(feature_names) == IF feature_names = None THEN <<>> ELSE feature_names[1]

\* model_input[model_key] = value: every column of that name takes the value.
SetColumn(row, cols, model_key, value) ==
  [i \in 1..Len(row) |-> IF cols[i] = model_key THEN value ELSE row[i]]

\* The first loop, from entry n of feature_mapping on.
RECURSIVE CopyDirect(_, _, _, _)
CopyDirect(row, cols, hr_input, n) ==
  IF n > Len(feature_mapping) THEN row
  ELSE LET hr_key == feature_mapping[n][1]
           model_key == feature_mapping[n][2]
       IN  IF Has(hr_input, hr_key) /\ model_key \in Range(cols)
             THEN CopyDirect(SetColumn(row, cols, model_key, Lookup(hr_input, hr_key)),
                             cols, hr_input, n + 1)
             ELSE CopyDirect(row, cols, hr_input, n + 1)

\* The second loop, from entry n of the categorical mappings cm on.
RECURSIVE SetIndicators(_, _, _, _)
SetIndicators(row, cols, cm, n) ==
  IF n > Len(cm) THEN row
  ELSE IF cm[n][1] \in Range(cols)
         THEN SetIndicators(SetColumn(row, cols, cm[n][1], cm[n][2]), cols, cm, n + 1)
         ELSE SetIndicators(row, cols, cm, n + 1)

\* A mutation of prepare_model_input: the frame is laid out in the order of the
\* profile's keys (columns the profile names first, the others after them).
prepare_model_input_ProfileOrder(hr_input, feature_names) ==
  LET cols == Columns(feature_names)
      keyed == SelectSeq([i \in 1..Len(hr_input) |-> hr_input[i][1]],
                         LAMBDA k : k \in Range(cols))
      rest == SelectSeq(cols, LAMBDA c : ~Has(hr_input, c))
      out == keyed \o rest
  IN  [cols |-> out,
       row |-> SetIndicators(CopyDirect([i \in 1..Len(out) |-> 0], out, hr_input, 1),
                             out, categorical_mappings(hr_input), 1)]

\* prepare_model_input: the frame returned, as its column list and its row.
prepare_model_input(hr_input, feature_names) ==
  LET cols == Columns(feature_names)
  IN  [cols |-> cols,
       row |-> SetIndicators(CopyDirect(EmptyFrame(feature_names), cols, hr_input, 1),
                             cols, categorical_mappings(hr_input), 1)]

(***************************************************************************)
(* The loaded artifacts.  A fitted scikit-learn object is the record of    *)
(* what the pipeline can observe of it: the number of columns it was       *)
(* fitted on (transform and predict raise on any other width) and, for     *)
(* the scaler, its fitted mean.  Their arithmetic belongs to the library;  *)
(* fixed deterministic functions stand for it.                             *)
(***************************************************************************)
Milli == 1000

\* scaler.transform(model_input): raises unless the width is the fitted one.
ScalerRaises(scaler, frame) == Len(frame.row) # scaler[1].n_features_in

ScalerTransform(scaler, frame) == [i \in 1..Len(frame.row) |-> frame.row[i] - scaler[1].mean]

\* model.predict_proba / model.predict: raise unless the width is the fitted one.
ModelRaises(model, row) == Len(row) # model[1].n_features_in

RECURSIVE SumSeq(_)
SumSeq(s) == IF s = <<>> THEN 0 ELSE Head(s) + SumSeq(Tail(s))

\* P(leave) in thousandths, a monotone function of the instance's score.
ModelLeave(model, row) == Min2(Max2(Milli \div 2 + model[1].coef * SumSeq(row), 0), Milli)

model_predict_proba(model, row) == <<Milli - ModelLeave(model, row), ModelLeave(model, row)>>

model_predict(model, row) == IF ModelLeave(model, row) > Milli \div 2 THEN 1 ELSE 0

(***************************************************************************)
(* make_prediction.                                                        *)
(***************************************************************************)
\* The coefficients of the closed-form heuristic, in thousandths.
BaseRisk == 300

OverTimeWeight == 200

SatisfactionWeight == 300

BalanceWeight == 200

RiskFloor == 50

RiskCap == 950

LeaveThreshold == 500

\* A mutation of FallbackRisk: the satisfaction terms are x/4 instead of 1 - x/4.
FallbackRisk_NoComplement(hr_input) ==
  Min2(Max2(BaseRisk + Get(hr_input, "OverTime", 0) * OverTimeWeight
              + (Get(hr_input, "JobSatisfaction", 3) * SatisfactionWeight) \div 4
              + (Get(hr_input, "WorkLifeBalance", 3) * BalanceWeight) \div 4,
            RiskFloor), RiskCap)

\* A mutation of FallbackRisk: a missing JobSatisfaction or WorkLifeBalance is read as 4.
FallbackRisk_Default4(hr_input) ==
  Min2(Max2(BaseRisk + Get(hr_input, "OverTime", 0) * OverTimeWeight
              + ((4 - Get(hr_input, "JobSatisfaction", 4)) * SatisfactionWeight) \div 4
              + ((4 - Get(hr_input, "WorkLifeBalance", 4)) * BalanceWeight) \div 4,
            RiskFloor), RiskCap)

\* risk_score after min(max(., 0.05), 0.95); (1 - x/4) * w is ((4 - x) * w) / 4.
FallbackRisk(hr_input) ==
  Min2(Max2(BaseRisk + Get(hr_input, "OverTime", 0) * OverTimeWeight
              + ((4 - Get(hr_input, "JobSatisfaction", 3)) * SatisfactionWeight) \div 4
              + ((4 - Get(hr_input, "WorkLifeBalance", 3)) * BalanceWeight) \div 4,
            RiskFloor), RiskCap)

\* prediction = 1 if risk_score > 0.5 else 0
FallbackLabel(risk_score) == IF risk_score > LeaveThreshold THEN 1 ELSE 0

\* A mutation of FallbackProba: the pair is [risk, 1 - risk].
FallbackProba_Swapped(risk_score) == <<risk_score, Milli - risk_score>>

\* prediction_proba = [1 - risk_score, risk_score]
FallbackProba(risk_score) == <<Milli - risk_score, risk_score>>

\* The value returned when the except branch runs: (None, None, None).
\* A mutation of PredictionFailed: the except branch returns the label "stay" in place of
\* None.
PredictionFailed_StayLabel ==
  [prediction |-> Some(0), prediction_proba |-> None, input_df |-> None]

PredictionFailed == [prediction |-> None, prediction_proba |-> None, input_df |-> None]

\* make_prediction(model, scaler, hr_input, feature_names): the triple returned.
make_prediction(model, scaler, hr_input, feature_names) ==
  IF model = None
    THEN LET risk_score == FallbackRisk(hr_input)
         IN  [prediction |-> Some(FallbackLabel(risk_score)),
              prediction_proba |-> Some(FallbackProba(risk_score)),
              input_df |-> None]
    ELSE LET built == prepare_model_input(hr_input, feature_names)
         IN  IF scaler # None /\ ScalerRaises(scaler, built)
               THEN PredictionFailed
               ELSE LET row == IF scaler # None THEN ScalerTransform(scaler, built)
                                                ELSE built.row
                    IN  IF ModelRaises(model, row)
                          THEN PredictionFailed
                          ELSE [prediction |-> Some(model_predict(model, row)),
                                prediction_proba |-> Some(model_predict_proba(model, row)),
                                input_df |-> Some(row)]

\* The pipeline stages a call of make_prediction runs, in order: without a model the
\* heuristic is evaluated on hr_input and prepare_model_input is not called; with one,
\* prepare_model_input comes first and the classifier is reached unless the scaler raises.
PredictionStages(model, scaler, hr_input, feature_names) ==
  IF model = None THEN <<"predict">>
  ELSE IF scaler # None /\ ScalerRaises(scaler, prepare_model_input(hr_input, feature_names))
    THEN <<"build">>
    ELSE <<"build", "predict">>

\* The stages of display_prediction_results: create_lime_explanation is called, and calls
\* prepare_model_input as its first statement.
ExplanationStages == <<"explain", "build">>

(***************************************************************************)
(* create_lime_explanation ("explain").                                    *)
(***************************************************************************)
\* Every key a profile of this model can hold, as Python's sorted() orders strings.
KeyOrder ==
  << "Age", "BusinessTravel", "DistanceFromHome", "EmployeeNumber", "EnvironmentSatisfaction",
     "Gender", "JobLevel", "JobSatisfaction", "MaritalStatus", "MonthlyIncome", "OverTime",
     "PercentSalaryHike", "PerformanceRating", "StockOptionLevel", "WorkLifeBalance",
     "YearsAtCompany", "YearsInCurrentRole", "YearsSinceLastPromotion" >>

\* sorted(hr_input.items()): the items by ascending key (keys are distinct).
SortedItems(hr_input) ==
  LET present == SelectSeq(KeyOrder, LAMBDA k : Has(hr_input, k))
  IN  [i \in 1..Len(present) |-> <<present[i], Lookup(hr_input, present[i])>>]

\* str() of a list of (str, int) tuples: "[('Age', 32), ('Gender', 1)]".
RECURSIVE JoinItems(_)
JoinItems(items) ==
  IF items = <<>> THEN ""
  ELSE "('" \o items[1][1] \o "', " \o ToString(items[1][2]) \o ")"
       \o (IF Len(items) > 1 THEN ", " ELSE "") \o JoinItems(Tail(items))

\* A mutation of CacheKey: the items are serialized in the profile's own order.
CacheKey_Unsorted(hr_input) == "[" \o JoinItems(hr_input) \o "]"

\* input_key = str(sorted(hr_input.items()))
CacheKey(hr_input) == "[" \o JoinItems(SortedItems(hr_input)) \o "]"

\* lime_config.get('num_features', 10), or 10 without a config.
DefaultNumFeatures == 10

NumFeatures(lime_config) ==
  IF lime_config # None THEN Get(lime_config[1], "num_features", DefaultNumFeatures)
  ELSE DefaultNumFeatures

\* explanation.as_list() of the surrogate explainer for one instance: a descriptor and a
\* signed weight (thousandths) for each of the first num_features columns.  The explainer
\* belongs to the library; with the seed fixed at 42 it is a function of its arguments.
ExplainerAsList(model, cols, row, num_features) ==
  [i \in 1..Min2(num_features, Len(cols)) |->
     <<cols[i] \o (IF row[i] > 0 THEN " > 0.00" ELSE " <= 0.00"),
       IF row[i] > 0 THEN model[1].coef * 30 ELSE 0 - model[1].coef * 20>>]

\* A mutation of ExplanationFailed: the except clause does not catch the exception, which
\* leaves create_lime_explanation.
ExplanationFailed_Propagates(steps, invoked) ==
  [features |-> <<>>, values |-> <<>>, steps |-> steps, invoked |-> invoked, instance |-> None,
   caught |-> FALSE, propagated |-> TRUE]

\* The value returned by the except branch: ([], [], None), with the steps that ran.
\* except Exception catches whatever a step raised (caught); nothing leaves the function.
ExplanationFailed(steps, invoked) ==
  [features |-> <<>>, values |-> <<>>, steps |-> steps, invoked |-> invoked, instance |-> None,
   caught |-> TRUE, propagated |-> FALSE]

\* A mutation of ExplainedInstance: the explainer gets the frame as built, not scaled.
ExplainedInstance_Unscaled(scaler, built) == built.row

\* model_input.values[0] at the call of explain_instance: the first row of the frame
\* built from the profile, after scaler.transform when there is a scaler.
ExplainedInstance(scaler, built) ==
  IF scaler # None THEN ScalerTransform(scaler, built) ELSE built.row

\* create_lime_explanation: the (features, values) returned, the statements that ran in
\* order (steps), how often the surrogate explainer was invoked, and the instance it got.
create_lime_explanation(model, scaler, hr_input, feature_names, lime_config, explanation_cache) ==
  LET built == prepare_model_input(hr_input, feature_names)
      scaled == scaler # None
      before == IF scaled THEN <<"build", "scale">> ELSE <<"build">>
      row == ExplainedInstance(scaler, built)
      input_key == CacheKey(hr_input)
      hit == DOMAIN explanation_cache # {} /\ input_key \in DOMAIN explanation_cache
  IN  IF scaled /\ ScalerRaises(scaler, built)
        THEN ExplanationFailed(before, 0)
      ELSE IF hit
        THEN [features |-> explanation_cache[input_key].features,
              values |-> explanation_cache[input_key].values,
              steps |-> before \o <<"lookup">>, invoked |-> 0, instance |-> None,
              caught |-> FALSE, propagated |-> FALSE]
      ELSE IF feature_names = None \/ model = None
        THEN ExplanationFailed(before \o <<"lookup">>, 0)
      ELSE IF ModelRaises(model, row)
        THEN ExplanationFailed(before \o <<"lookup", "explain">>, 1)
      ELSE LET exp_list == ExplainerAsList(model, built.cols, row, NumFeatures(lime_config))
           IN  [features |-> [i \in 1..Len(exp_list) |-> exp_list[i][1]],
                values |-> [i \in 1..Len(exp_list) |-> exp_list[i][2]],
                steps |-> before \o <<"lookup", "explain">>, invoked |-> 1,
                instance |-> Some(row), caught |-> FALSE, propagated |-> FALSE]

\* A mutation of CacheAfterExplain: a computed explanation is stored under its key.
CacheAfterExplain_Stored(explanation_cache, input_key, e) ==
  IF e.invoked = 1 /\ ~e.caught
    THEN (input_key :> [features |-> e.features, values |-> e.values]) @@ explanation_cache
    ELSE explanation_cache

\* The explanation cache when create_lime_explanation has returned e for input_key: the
\* function reads the cache (input_key in explanation_cache, explanation_cache[input_key])
\* and has no statement that assigns to it or to one of its entries.
CacheAfterExplain(explanation_cache, input_key, e) == explanation_cache

(***************************************************************************)
(* display_prediction_results: clean_lime_explanation and the description  *)
(* of the factors.  Strings are Python's: split, strip, in and replace     *)
(* work on characters.                                                     *)
(***************************************************************************)
\* The positions at which sep occurs in s.
Occurrences(s, sep) ==
  {i \in 1..(Len(s) - Len(sep) + 1) : SubSeq(s, i, i + Len(sep) - 1) = sep}

Lowest(S) == CHOOSE i \in S : \A j \in S : i <= j

\* s.split(sep)[0]
SplitFirst(s, sep) ==
  IF Occurrences(s, sep) = {} THEN s ELSE SubSeq(s, 1, Lowest(Occurrences(s, sep)) - 1)

\* s.strip()
RECURSIVE Strip(_)
Strip(s) ==
  IF s = "" THEN s
  ELSE IF SubSeq(s, 1, 1) = " " THEN Strip(SubSeq(s, 2, Len(s)))
  ELSE IF SubSeq(s, Len(s), Len(s)) = " " THEN Strip(SubSeq(s, 1, Len(s) - 1))
  ELSE s

\* old in s
Contains(s, old) == Occurrences(s, old) # {}

\* s.replace(old, new)
RECURSIVE Replace(_, _, _)
Replace(s, old, new) ==
  IF Occurrences(s, old) = {} THEN s
  ELSE LET i == Lowest(Occurrences(s, old))
       IN  SubSeq(s, 1, i - 1) \o new \o Replace(SubSeq(s, i + Len(old), Len(s)), old, new)

\* The sign U+2264 of the first split, which a string of this module cannot hold; no
\* descriptor of the explainer holds either.
LessEqualSign == "#"

\* base_feature: the text before the first ' <sign>', ' >' or ' <'.
BaseFeature(feature_text) ==
  Strip(SplitFirst(SplitFirst(SplitFirst(feature_text, " " \o LessEqualSign), " >"), " <"))

\* feature_mapping of clean_lime_explanation, in the order of the dict.
friendly_names ==
  << <<"OverTime_Yes", "Sering Kerja Lembur">>,
     <<"JobSatisfaction", "Kepuasan Kerja Rendah">>,
     <<"WorkLifeBalance", "Work-Life Balance Buruk">>,
     <<"EnvironmentSatisfaction", "Kepuasan Lingkungan Kerja Rendah">>,
     <<"MonthlyIncome", "Gaji Bulanan Rendah">>,
     <<"Age", "Usia Karyawan">>,
     <<"YearsAtCompany", "Masa Kerja Pendek">>,
     <<"DistanceFromHome", "Jarak Rumah Jauh">>,
     <<"YearsSinceLastPromotion", "Lama Tanpa Promosi">>,
     <<"BusinessTravel_Travel_Frequently", "Sering Perjalanan Dinas">>,
     <<"BusinessTravel_Travel_Rarely", "Jarang Perjalanan Dinas">>,
     <<"JobLevel", "Level Pekerjaan Rendah">>,
     <<"StockOptionLevel", "Opsi Saham Rendah">>,
     <<"PercentSalaryHike", "Kenaikan Gaji Rendah">>,
     <<"PerformanceRating", "Rating Kinerja">>,
     <<"JobInvolvement", "Keterlibatan Kerja Rendah">>,
     <<"RelationshipSatisfaction", "Kepuasan Hubungan Kerja Rendah">>,
     <<"TotalWorkingYears", "Total Pengalaman Kerja">>,
     <<"NumCompaniesWorked", "Jumlah Perusahaan Sebelumnya">>,
     <<"Gender_Male", "Jenis Kelamin Laki-laki">>,
     <<"MaritalStatus_Single", "Status Lajang">>,
     <<"MaritalStatus_Married", "Status Menikah">> >>

\* The loop over feature_mapping.items(): the label of the first key that occurs in
\* base_feature, or base_feature itself.
MappedName(base_feature) ==
  LET hits == {i \in 1..Len(friendly_names) : Contains(base_feature, friendly_names[i][1])}
  IN  IF hits = {} THEN base_feature ELSE friendly_names[Lowest(hits)][2]

\* The cleanup of a name no key matched.
GenericName(base_feature) ==
  LET cleaned == Replace(Replace(Replace(base_feature, "_", " "), "Field", ""),
                         "Education", "Pendidikan")
  IN  IF Contains(cleaned, "Department") THEN Replace(cleaned, "Department", "Dept.")
      ELSE IF Contains(cleaned, "JobRole") THEN Replace(cleaned, "JobRole", "Posisi")
      ELSE cleaned

CleanName(base_feature) ==
  IF MappedName(base_feature) = base_feature THEN GenericName(base_feature)
  ELSE MappedName(base_feature)

\* The two thresholds of the strength, in thousandths.
StrongImpact == 80

ModerateImpact == 50

Abs(v) == IF v < 0 THEN 0 - v ELSE v

\* A mutation of Strength: the thresholds themselves count as reached.
Strength_AtLeast(value) ==
  IF Abs(value) >= StrongImpact THEN "Sangat"
  ELSE IF Abs(value) >= ModerateImpact THEN "Cukup"
  ELSE "Sedikit"

\* strength, from impact_strength = abs(value).
Strength(value) ==
  IF Abs(value) > StrongImpact THEN "Sangat"
  ELSE IF Abs(value) > ModerateImpact THEN "Cukup"
  ELSE "Sedikit"

\* clean_lime_explanation(feature_text, value): (clean_name, strength), with the
\* base_feature it went through.
clean_lime_explanation(feature_text, value) ==
  [factor |-> feature_text, value |-> value, base_feature |-> BaseFeature(feature_text),
   clean_name |-> CleanName(BaseFeature(feature_text)), strength |-> Strength(value)]

\* How many factors of each sign are written.
MaxFactors == 5

\* The lines written under "Deskripsi": the first five factors that raise the risk, then
\* the first five that lower it; nothing when features or values is empty.
Describe(features, values) ==
  LET idx == [i \in 1..Min2(Len(features), Len(values)) |-> i]
      pos == SelectSeq(idx, LAMBDA i : values[i] > 0)
      neg == SelectSeq(idx, LAMBDA i : values[i] < 0)
      shownIdx == SubSeq(pos, 1, Min2(MaxFactors, Len(pos)))
                    \o SubSeq(neg, 1, Min2(MaxFactors, Len(neg)))
  IN  IF features = <<>> \/ values = <<>> THEN <<>>
      ELSE [k \in 1..Len(shownIdx) |->
              clean_lime_explanation(features[shownIdx[k]], values[shownIdx[k]])]

(***************************************************************************)
(* display_prediction_results: the rule-based risk factors.                *)
(***************************************************************************)
\* [x] if the test holds, [] otherwise.
FlagIf(test, flag) == IF test THEN <<flag>> ELSE <<>>

\* A mutation of RiskFactors: the promotion rule asks for more than 3 years.
RiskFactors_StrictPromotion(hr_input) ==
     FlagIf(Get(hr_input, "OverTime", 0) = 1, "Sering Lembur")
  \o FlagIf(Get(hr_input, "JobSatisfaction", 4) <= 2, "Kepuasan Kerja Rendah")
  \o FlagIf(Get(hr_input, "WorkLifeBalance", 4) <= 2, "Work-Life Balance Buruk")
  \o FlagIf(Get(hr_input, "YearsSinceLastPromotion", 0) > 3, "Tidak Ada Promosi 3+ Tahun")
  \o FlagIf(Get(hr_input, "DistanceFromHome", 0) > 20, "Jarak Rumah Jauh")
  \o FlagIf(Get(hr_input, "PercentSalaryHike", 13) < 10, "Kenaikan Gaji Rendah")
  \o FlagIf(Get(hr_input, "BusinessTravel", 1) = 2, "Sering Perjalanan Dinas")
  \o FlagIf(Get(hr_input, "EnvironmentSatisfaction", 4) <= 2,
            "Kepuasan Lingkungan Kerja Rendah")

\* risk_factors after the eight tests, in the order they are appended.
RiskFactors(hr_input) ==
     FlagIf(Get(hr_input, "OverTime", 0) = 1, "Sering Lembur")
  \o FlagIf(Get(hr_input, "JobSatisfaction", 4) <= 2, "Kepuasan Kerja Rendah")
  \o FlagIf(Get(hr_input, "WorkLifeBalance", 4) <= 2, "Work-Life Balance Buruk")
  \o FlagIf(Get(hr_input, "YearsSinceLastPromotion", 0) >= 3, "Tidak Ada Promosi 3+ Tahun")
  \o FlagIf(Get(hr_input, "DistanceFromHome", 0) > 20, "Jarak Rumah Jauh")
  \o FlagIf(Get(hr_input, "PercentSalaryHike", 13) < 10, "Kenaikan Gaji Rendah")
  \o FlagIf(Get(hr_input, "BusinessTravel", 1) = 2, "Sering Perjalanan Dinas")
  \o FlagIf(Get(hr_input, "EnvironmentSatisfaction", 4) <= 2,
            "Kepuasan Lingkungan Kerja Rendah")

(***************************************************************************)
(* The inputs.                                                             *)
(***************************************************************************)
\* A dict of the schema's keys in form order, from a key -> value function.
FormDict(f) == [i \in 1..Len(FormKeys) |-> <<FormKeys[i], f[FormKeys[i]]>>]

\* The state of the manual-entry widgets before the user touches them.
WidgetDefaults == [k \in DOMAIN hr_features |-> hr_features[k].default]

\* What a widget lets the user choose: every label of a selectbox; for a number widget
\* the ends of its range (the default is the untouched state).
WidgetChoices(k) ==
  IF hr_features[k].type = "selectbox" THEN DOMAIN hr_features[k].options
  ELSE {hr_features[k].min, hr_features[k].default, hr_features[k].max}

\* The two fallback scenarios: the untouched form with three selectboxes changed.
Scenario1 ==
  [WidgetDefaults EXCEPT !["OverTime"] = "Ya", !["JobSatisfaction"] = "Rendah",
                         !["WorkLifeBalance"] = "Buruk"]

Scenario2 ==
  [WidgetDefaults EXCEPT !["OverTime"] = "Tidak", !["JobSatisfaction"] = "Sangat Tinggi",
                         !["WorkLifeBalance"] = "Terbaik"]

\* The risk-factor scenario: the untouched form with three number widgets changed.
Scenario3 ==
  [WidgetDefaults EXCEPT !["DistanceFromHome"] = 25, !["YearsSinceLastPromotion"] = 3,
                         !["PercentSalaryHike"] = 8]

\* The widgets the user changes one at a time in the runs of the application.
EditedWidgets == {"MaritalStatus", "OverTime", "JobSatisfaction"}

\* Manual entry: the untouched form, the form with one of these widgets changed, and the
\* scenarios.
ManualInputs ==
  {FormDict(WidgetDefaults), FormDict(Scenario1), FormDict(Scenario2), FormDict(Scenario3)}
  \cup {FormDict([WidgetDefaults EXCEPT ![kv[1]] = kv[2]]) : kv \in
          UNION {{<<k, v>> : v \in WidgetChoices(k)} : k \in EditedWidgets}}

\* The four quick profiles (their names without the leading pictograph).
profiles ==
     ("Karyawan Berprestasi" :>
        << <<"Age", 35>>, <<"Gender", "Laki-laki">>, <<"MaritalStatus", "Menikah">>,
           <<"DistanceFromHome", 5>>, <<"JobLevel", "Senior">>, <<"YearsAtCompany", 8>>,
           <<"YearsInCurrentRole", 3>>, <<"YearsSinceLastPromotion", 1>>,
           <<"OverTime", "Tidak">>, <<"BusinessTravel", "Jarang">>, <<"MonthlyIncome", 8000>>,
           <<"PercentSalaryHike", 18>>, <<"StockOptionLevel", "Premium">>,
           <<"JobSatisfaction", "Sangat Tinggi">>, <<"WorkLifeBalance", "Lebih Baik">>,
           <<"EnvironmentSatisfaction", "Sangat Tinggi">>,
           <<"PerformanceRating", "Luar Biasa">> >>)
  @@ ("Karyawan Biasa" :>
        << <<"Age", 32>>, <<"Gender", "Perempuan">>, <<"MaritalStatus", "Menikah">>,
           <<"DistanceFromHome", 7>>, <<"JobLevel", "Menengah">>, <<"YearsAtCompany", 5>>,
           <<"YearsInCurrentRole", 2>>, <<"YearsSinceLastPromotion", 2>>,
           <<"OverTime", "Tidak">>, <<"BusinessTravel", "Jarang">>, <<"MonthlyIncome", 5000>>,
           <<"PercentSalaryHike", 13>>, <<"StockOptionLevel", "Dasar">>,
           <<"JobSatisfaction", "Tinggi">>, <<"WorkLifeBalance", "Lebih Baik">>,
           <<"EnvironmentSatisfaction", "Tinggi">>, <<"PerformanceRating", "Sangat Baik">> >>)
  @@ ("Fresh Graduate" :>
        << <<"Age", 24>>, <<"Gender", "Laki-laki">>, <<"MaritalStatus", "Lajang">>,
           <<"DistanceFromHome", 15>>, <<"JobLevel", "Pemula">>, <<"YearsAtCompany", 1>>,
           <<"YearsInCurrentRole", 1>>, <<"YearsSinceLastPromotion", 0>>,
           <<"OverTime", "Ya">>, <<"BusinessTravel", "Tidak Pernah">>,
           <<"MonthlyIncome", 3000>>, <<"PercentSalaryHike", 11>>,
           <<"StockOptionLevel", "Tidak Ada">>, <<"JobSatisfaction", "Tinggi">>,
           <<"WorkLifeBalance", "Baik">>, <<"EnvironmentSatisfaction", "Tinggi">>,
           <<"PerformanceRating", "Baik">> >>)
  @@ ("Karyawan Berisiko" :>
        << <<"Age", 28>>, <<"Gender", "Perempuan">>, <<"MaritalStatus", "Lajang">>,
           <<"DistanceFromHome", 25>>, <<"JobLevel", "Junior">>, <<"YearsAtCompany", 3>>,
           <<"YearsInCurrentRole", 3>>, <<"YearsSinceLastPromotion", 3>>,
           <<"OverTime", "Ya">>, <<"BusinessTravel", "Sering">>, <<"MonthlyIncome", 3500>>,
           <<"PercentSalaryHike", 11>>, <<"StockOptionLevel", "Tidak Ada">>,
           <<"JobSatisfaction", "Rendah">>, <<"WorkLifeBalance", "Buruk">>,
           <<"EnvironmentSatisfaction", "Rendah">>, <<"PerformanceRating", "Baik">> >>)

\* Everything the form can hand to the conversion loop as input_data.
FormInputs == ManualInputs \cup {profiles[p] : p \in DOMAIN profiles}

\* A label no options mapping has.
UnknownLabel == "unknown"

\* Raw values a caller of the conversion can pass for a key: every label of the key's
\* mapping and an unrecognised one; for a number, values inside and outside min..max.
RawValues(k) ==
  IF k \notin DOMAIN hr_features THEN {7}
  ELSE IF hr_features[k].type = "selectbox"
    THEN DOMAIN hr_features[k].options \cup {UnknownLabel}
    ELSE {hr_features[k].min - 1, hr_features[k].min, hr_features[k].default,
          hr_features[k].max, hr_features[k].max + 1}

RawPairs(keys) == UNION {{<<k, v>> : v \in RawValues(k)} : k \in keys}

\* The dicts of exactly n items over the given keys, in every insertion order.
DictsOver(keys, n) ==
  {d \in [1..n -> RawPairs(keys)] : \A i, j \in 1..n : i # j => d[i][1] # d[j][1]}

\* The keys the fallback heuristic reads.
CoreKeys == {"OverTime", "JobSatisfaction", "WorkLifeBalance"}

\* Profiles for the functions called on their own: the form's, every profile over the
\* fallback's keys (missing keys and unrecognised labels included, in every order), and
\* every single-item profile over the schema's keys and one key outside the schema.
UnitInputs ==
  FormInputs
  \cup UNION {DictsOver(CoreKeys, n) : n \in 0..Cardinality(CoreKeys)}
  \cup DictsOver(DOMAIN hr_features \cup {"EmployeeNumber"}, 1)

\* Columns a trained model of this dataset has: the thirteen direct features, the six
\* indicators, and columns the builder has no source for.
FullColumns ==
  << "Age", "DistanceFromHome", "EnvironmentSatisfaction", "JobInvolvement", "JobLevel",
     "JobSatisfaction", "MonthlyIncome", "NumCompaniesWorked", "PercentSalaryHike",
     "PerformanceRating", "StockOptionLevel", "TotalWorkingYears", "WorkLifeBalance",
     "YearsAtCompany", "YearsInCurrentRole", "YearsSinceLastPromotion",
     "BusinessTravel_Travel_Frequently", "BusinessTravel_Travel_Rarely", "Gender_Male",
     "MaritalStatus_Married", "MaritalStatus_Single", "OverTime_Yes" >>

Reverse(s) == [i \in 1..Len(s) |-> s[Len(s) + 1 - i]]

\* The longest generated feature list, and the columns it is generated from.
MaxCols == 2

ColumnPool ==
  {"JobSatisfaction", "MaritalStatus_Married", "MaritalStatus_Single", "OverTime_Yes",
   "JobInvolvement"}

\* Feature lists: the full list both ways round, and every list of at most MaxCols
\* distinct columns of the pool (the empty list included).
FeatureLists ==
  {FullColumns, Reverse(FullColumns)}
  \cup UNION {{l \in [1..n -> ColumnPool] : \A i, j \in 1..n : i # j => l[i] # l[j]}
                : n \in 0..MaxCols}

(***************************************************************************)
(* State.                                                                  *)
(***************************************************************************)
VARIABLES
  pc,                 \* where the script (or the caller of the functions) stands
  model,              \* the classifier, or None
  scaler,             \* the fitted scaler, or None
  feature_names,      \* the model's column list, or None
  lime_config,        \* the explainer configuration, or None
  explanation_cache,  \* input_key -> [features, values]
  input_data,         \* the raw profile of the form
  hr_input,           \* numeric_data, the normalized profile
  model_input,        \* the frame last returned by prepare_model_input, or None
  prediction,         \* make_prediction's label, or None
  prediction_proba,   \* make_prediction's [P(stay), P(leave)], or None
  input_df,           \* the row make_prediction gave the classifier, or None
  explanation,        \* the last result of create_lime_explanation, or None
  prev_explanation,   \* the call of create_lime_explanation before the last one, or None
  explainer_calls,    \* how often the surrogate explainer has been invoked
  requests,           \* how many analyses have been requested
  risk_factors,       \* the risk factors shown for the request, or None
  analysis_message,   \* what the button's handler reported: "", "selesai" or "gagal"
  first_fallback,     \* the first call of make_prediction without a model, or None
  files,              \* the artifact files load_model_components found, or None
  metadata,           \* the model metadata load_model_components returned, or None
  extras,             \* its other returned artifacts, or None
  session_state,      \* st.session_state: logged_in, username, user_role, ...
  last_login,         \* the last submission of the login form in this visit, or None
  stages,             \* the pipeline stages run so far for the profile in hand, in order
  described           \* the factor lines written under the explanation chart

session == <<session_state, last_login>>

loaded == <<files, metadata, extras>>

components == <<model, scaler, feature_names, lime_config, explanation_cache, loaded>>

results == <<model_input, prediction, prediction_proba, input_df>>

explained == <<explanation, prev_explanation, explainer_calls>>

shown == <<risk_factors, analysis_message>>

vars == <<pc, components, input_data, hr_input, results, explained, requests, shown,
          first_fallback, session, stages, described>>

\* The most analyses requested in one run of the model.
MaxRequests == 2

(***************************************************************************)
(* load_model_components.                                                  *)
(***************************************************************************)
\* The column lists the artifact can hold in the application runs.
(***************************************************************************)
(* The login: credentials, password hashing, the session.                  *)
(***************************************************************************)
ADMIN_CREDENTIALS ==
  "hr_admin" :>
    [password_hash |-> "240be518fabd2724ddb6f04eeb1da5967448d7e831c08c8fa822809f74c720a9",
     role |-> "admin",
     permissions |-> <<"employee_assessment", "dashboard">>,
     display_name |-> "HR Administrator"]

\* hashlib.sha256(...).hexdigest() of the passwords tried here: the admin's, the two of
\* the hash scripts, the empty one, and the stored hash typed in as a password.
Sha256Hex ==
     ("admin123" :> "240be518fabd2724ddb6f04eeb1da5967448d7e831c08c8fa822809f74c720a9")
  @@ ("password123" :> "ef92b778bafe771e89245b89ecbc08a44a4e166c06659911881f383d4473e94f")
  @@ ("finance123" :> "48f7312924d74358e75294e3b3613f2319d99e944184b69550f528577ca082fb")
  @@ ("" :> "e3b0c44298fc1c149afbf4c8996fb92427ae41e4649b934ca495991b7852b855")
  @@ ("240be518fabd2724ddb6f04eeb1da5967448d7e831c08c8fa822809f74c720a9" :>
        "da1a51f975cd750be255d21548eaae1dbaa96ffc997283a6a204f9213a8aca71")

Passwords == DOMAIN Sha256Hex

\* The names typed into the login form.
Usernames == {"hr_admin", "admin", ""}

hash_password(password) == Sha256Hex[password]

\* A mutation of verify_password: the password itself is compared with the stored hash.
verify_password_Plain(password, hashed) == password = hashed

verify_password(password, hashed) == hash_password(password) = hashed

get_user_permissions(username) ==
  IF username \in DOMAIN ADMIN_CREDENTIALS THEN ADMIN_CREDENTIALS[username].permissions
  ELSE <<>>

get_user_role(username) ==
  IF username \in DOMAIN ADMIN_CREDENTIALS THEN ADMIN_CREDENTIALS[username].role ELSE "guest"

get_user_display_name(username) ==
  IF username \in DOMAIN ADMIN_CREDENTIALS THEN ADMIN_CREDENTIALS[username].display_name
  ELSE username

\* st.session_state after the first run of main: logged_in is False, no other key is set.
LoggedOut ==
  [logged_in |-> FALSE, username |-> None, user_role |-> None, user_permissions |-> <<>>,
   display_name |-> None]

\* login_page with the form submitted: the session is filled when the name is a key of
\* ADMIN_CREDENTIALS and the password verifies, and the script reruns into main_app
\* (whose load_model_components is cached once it has run); an error is shown otherwise.
LoginPage ==
  /\ pc = "login"
  /\ ~session_state.logged_in
  /\ \E username \in Usernames, password \in Passwords :
       /\ last_login' = Some([username |-> username, password |-> password])
       /\ IF /\ username \in DOMAIN ADMIN_CREDENTIALS
             /\ verify_password(password, ADMIN_CREDENTIALS[username].password_hash)
            THEN /\ session_state' =
                      [logged_in |-> TRUE, username |-> Some(username),
                       user_role |-> Some(get_user_role(username)),
                       user_permissions |-> get_user_permissions(username),
                       display_name |-> Some(get_user_display_name(username))]
                 /\ pc' = IF files = None THEN "load" ELSE "form"
            ELSE UNCHANGED <<session_state, pc>>
  /\ UNCHANGED <<components, input_data, hr_input, results, explained, requests, shown,
                 first_fallback, stages, described>>

\* A mutation of Logout: the button resets the flag and leaves the user's name, role and
\* permissions in the session.
Logout_KeepsUser ==
  /\ pc \in {"form", "ready"}
  /\ session_state.logged_in
  /\ session_state' = [session_state EXCEPT !.logged_in = FALSE]
  /\ last_login' = None
  /\ input_data' = <<>>
  /\ hr_input' = <<>>
  /\ model_input' = None
  /\ prediction' = None
  /\ prediction_proba' = None
  /\ input_df' = None
  /\ risk_factors' = None
  /\ analysis_message' = ""
  /\ stages' = <<>>
  /\ described' = <<>>
  /\ pc' = "login"
  /\ UNCHANGED <<components, explained, requests, first_fallback>>

\* The sidebar's logout button: the session is cleared (display_name stays), the script
\* reruns into login_page, and the locals of main_app are gone.
Logout ==
  /\ pc \in {"form", "ready"}
  /\ session_state.logged_in
  /\ session_state' = [session_state EXCEPT !.logged_in = FALSE, !.username = None,
                                            !.user_role = None, !.user_permissions = <<>>]
  /\ last_login' = None
  /\ input_data' = <<>>
  /\ hr_input' = <<>>
  /\ model_input' = None
  /\ prediction' = None
  /\ prediction_proba' = None
  /\ input_df' = None
  /\ risk_factors' = None
  /\ analysis_message' = ""
  /\ stages' = <<>>
  /\ described' = <<>>
  /\ pc' = "login"
  /\ UNCHANGED <<components, explained, requests, first_fallback>>

(***************************************************************************)
(* load_model_components.                                                  *)
(***************************************************************************)
LoadableFeatureLists == {FullColumns, <<"MaritalStatus_Single", "JobSatisfaction", "OverTime_Yes">>}

\* A fitted object: fitted on the model's columns, or on one column more (an artifact
\* exported from another training run).
FittedOn(cols) == {Len(cols), Len(cols) + 1}

EmptyCache == [k \in {} |-> None]

\* What explanation_cache.pkl can hold: precomputed explanations of the two fallback
\* scenarios and of one quick profile, under the keys the lookup computes.
PrecomputedCache ==
     (CacheKey(Normalize(FormDict(Scenario1))) :>
        [features |-> <<"OverTime_Yes > 0.00", "JobSatisfaction <= 0.00">>,
         values |-> <<112, 87>>])
  @@ (CacheKey(Normalize(FormDict(Scenario2))) :>
        [features |-> <<"OverTime_Yes <= 0.00">>, values |-> <<-95>>])
  @@ (CacheKey(Normalize(profiles["Karyawan Berisiko"])) :>
        [features |-> <<"WorkLifeBalance <= 0.00">>, values |-> <<61>>])

\* The files of enhanced_models/ the function opens: the first four outside any inner
\* try, the others each inside its own.
RequiredFiles ==
  {"logistic_regression_model.pkl", "scaler.pkl", "feature_names.pkl", "model_metadata.pkl"}

OptionalFiles ==
  {"global_feature_importance.pkl", "feature_descriptions.pkl", "lime_config.pkl",
   "interpretability_metadata.pkl", "explanation_cache.pkl", "streamlit_helpers.pkl"}

ArtifactFiles == RequiredFiles \cup OptionalFiles

\* The metadata of demo mode, the scores in thousandths.
DemoMetadata == [model_type |-> "Demo", test_accuracy |-> 870, roc_auc |-> 820]

\* What model_metadata.pkl holds.
LoadedMetadata ==
  [model_type |-> "Logistic Regression", test_accuracy |-> 880, roc_auc |-> 840]

\* The defaults of the optional artifacts the pipeline does not read.
DefaultExtras ==
  [global_importance |-> None, feature_descriptions |-> <<>>,
   interpretability_metadata |-> <<>>, streamlit_helpers |-> <<>>]

\* The same artifacts as their files hold them.
LoadedExtras ==
  [global_importance |-> Some(<<112, 87>>),
   feature_descriptions |-> << <<"OverTime_Yes", "Lembur">> >>,
   interpretability_metadata |-> << <<"method", "LIME">> >>,
   streamlit_helpers |-> << <<"version", 1>> >>]

\* A mutation of LoadDemo: demo mode with a precomputed explanation cache.
LoadDemo_WithCache ==
  /\ model' = None
  /\ scaler' = None
  /\ feature_names' = None
  /\ lime_config' = None
  /\ explanation_cache' = PrecomputedCache
  /\ metadata' = Some(DemoMetadata)
  /\ extras' = Some(DefaultExtras)

\* The except FileNotFoundError branch: demo mode.
LoadDemo ==
  /\ model' = None
  /\ scaler' = None
  /\ feature_names' = None
  /\ lime_config' = None
  /\ explanation_cache' = EmptyCache
  /\ metadata' = Some(DemoMetadata)
  /\ extras' = Some(DefaultExtras)

\* The try branch with the files in present: the four required artifacts load; each
\* optional one loads or is replaced by its default.
LoadArtifacts(present) ==
  \E cols \in LoadableFeatureLists :
    \E sw \in FittedOn(cols), mw \in FittedOn(cols) :
      /\ model' = Some([n_features_in |-> mw, coef |-> 3])
      /\ scaler' = Some([n_features_in |-> sw, mean |-> 1])
      /\ feature_names' = Some(cols)
      /\ metadata' = Some(LoadedMetadata)
      /\ lime_config' = IF "lime_config.pkl" \in present
                          THEN Some(<< <<"num_features", 2>> >>) ELSE None
      /\ explanation_cache' = IF "explanation_cache.pkl" \in present
                                THEN PrecomputedCache ELSE EmptyCache
      /\ extras' =
           Some([global_importance |->
                   IF "global_feature_importance.pkl" \in present
                     THEN LoadedExtras.global_importance
                     ELSE DefaultExtras.global_importance,
                 feature_descriptions |->
                   IF "feature_descriptions.pkl" \in present
                     THEN LoadedExtras.feature_descriptions
                     ELSE DefaultExtras.feature_descriptions,
                 interpretability_metadata |->
                   IF "interpretability_metadata.pkl" \in present
                     THEN LoadedExtras.interpretability_metadata
                     ELSE DefaultExtras.interpretability_metadata,
                 streamlit_helpers |->
                   IF "streamlit_helpers.pkl" \in present
                     THEN LoadedExtras.streamlit_helpers
                     ELSE DefaultExtras.streamlit_helpers])

\* A mutation of LoadComponents: the optional artifacts are opened outside any inner try,
\* so that a missing one reaches the outer except as well.
LoadComponents_AllRequired(present) ==
  IF ArtifactFiles \subseteq present THEN LoadArtifacts(present) ELSE LoadDemo

\* load_model_components with the files in present: opening a required file that is not
\* there raises FileNotFoundError, which the outer except turns into demo mode.
LoadComponents(present) ==
  IF RequiredFiles \subseteq present THEN LoadArtifacts(present) ELSE LoadDemo

\* load_model_components in an installation whose file set is one of fileSets.
Load(fileSets) ==
  /\ pc = "load"
  /\ session_state.logged_in
  /\ \E present \in fileSets :
       /\ LoadComponents(present)
       /\ files' = Some(present)
  /\ pc' = "form"
  /\ UNCHANGED <<input_data, hr_input, results, explained, requests, shown, first_fallback,
                 session, stages, described>>

\* The installations of the application: every artifact, with or without the explainer
\* configuration and the explanation cache, or no artifact at all.
AppFileSets ==
  {ArtifactFiles \ absent : absent \in SUBSET {"lime_config.pkl", "explanation_cache.pkl"}}
    \cup {{}}

LoadModelComponents == Load(AppFileSets)

(***************************************************************************)
(* main_app: the form, the analysis button, the results.                   *)
(***************************************************************************)
\* create_hr_input_form: the widgets or a quick profile fill input_data, the loop
\* converts it.  The script reruns on every interaction, so the form runs again; the
\* locals of the run before (the prediction and its frame) are gone.
Form(inputs) ==
  /\ pc \in {"form", "ready"}
  /\ session_state.logged_in
  /\ requests < MaxRequests
  /\ \E data \in inputs :
       /\ input_data' = data
       /\ hr_input' = Normalize(data)
  /\ model_input' = None
  /\ prediction' = None
  /\ prediction_proba' = None
  /\ input_df' = None
  /\ risk_factors' = None
  /\ analysis_message' = ""
  /\ stages' = <<"normalize">>
  /\ described' = <<>>
  /\ pc' = "ready"
  /\ UNCHANGED <<components, explained, requests, first_fallback, session>>

CreateHrInputForm == Form(FormInputs)

\* A mutation of MakePrediction: the fallback score keeps a running offset, so that it
\* depends on the requests served before.
MakePrediction_Accumulating ==
  /\ pc = "ready"
  /\ session_state.logged_in
  /\ requests < MaxRequests
  /\ LET r0 == make_prediction(model, scaler, hr_input, feature_names)
         drift == 50 * requests
         r == IF model = None
                THEN [r0 EXCEPT !.prediction_proba =
                        Some(<<r0.prediction_proba[1][1] - drift,
                               r0.prediction_proba[1][2] + drift>>)]
                ELSE r0
     IN  /\ prediction' = r.prediction
         /\ prediction_proba' = r.prediction_proba
         /\ input_df' = r.input_df
         /\ model_input' = IF model = None THEN model_input
                           ELSE Some(prepare_model_input(hr_input, feature_names))
         /\ pc' = IF r.prediction # None THEN "display" ELSE "form"
         /\ analysis_message' = IF r.prediction # None THEN "selesai" ELSE "gagal"
         /\ first_fallback' =
              IF model = None /\ first_fallback = None
                THEN Some([profile |-> hr_input, prediction |-> r.prediction,
                           prediction_proba |-> r.prediction_proba])
                ELSE first_fallback
  /\ stages' = stages \o PredictionStages(model, scaler, hr_input, feature_names)
  /\ requests' = requests + 1
  /\ UNCHANGED <<components, input_data, hr_input, explained, risk_factors, session,
                 described>>

\* The button: make_prediction; display_prediction_results follows only when it
\* returned a prediction.
MakePrediction ==
  /\ pc = "ready"
  /\ session_state.logged_in
  /\ requests < MaxRequests
  /\ LET r == make_prediction(model, scaler, hr_input, feature_names)
     IN  /\ prediction' = r.prediction
         /\ prediction_proba' = r.prediction_proba
         /\ input_df' = r.input_df
         /\ model_input' = IF model = None THEN model_input
                           ELSE Some(prepare_model_input(hr_input, feature_names))
         /\ pc' = IF r.prediction # None THEN "display" ELSE "form"
         /\ analysis_message' = IF r.prediction # None THEN "selesai" ELSE "gagal"
         /\ first_fallback' =
              IF model = None /\ first_fallback = None
                THEN Some([profile |-> hr_input, prediction |-> r.prediction,
                           prediction_proba |-> r.prediction_proba])
                ELSE first_fallback
  /\ stages' = stages \o PredictionStages(model, scaler, hr_input, feature_names)
  /\ requests' = requests + 1
  /\ UNCHANGED <<components, input_data, hr_input, explained, risk_factors, session,
                 described>>

\* The body of display_prediction_results: its call of create_lime_explanation, then the
\* risk factors.  An exception leaving create_lime_explanation would end the script run
\* before the risk factors.
DisplayResults ==
  /\ LET e == create_lime_explanation(model, scaler, hr_input, feature_names,
                                      lime_config, explanation_cache)
     IN  /\ explanation' = Some([profile |-> hr_input, features |-> e.features,
                                 values |-> e.values, steps |-> e.steps,
                                 invoked |-> e.invoked, instance |-> e.instance,
                                 caught |-> e.caught, propagated |-> e.propagated,
                                 input_key |-> IF "lookup" \in Range(e.steps)
                                                 THEN Some(CacheKey(hr_input)) ELSE None,
                                 calls_before |-> explainer_calls])
         /\ explainer_calls' = explainer_calls + e.invoked
         /\ explanation_cache' = CacheAfterExplain(explanation_cache, CacheKey(hr_input), e)
         /\ model_input' = Some(prepare_model_input(hr_input, feature_names))
         /\ described' = IF e.propagated THEN <<>> ELSE Describe(e.features, e.values)
         /\ risk_factors' = IF e.propagated THEN None ELSE Some(RiskFactors(hr_input))
  /\ prev_explanation' = explanation
  /\ stages' = stages \o ExplanationStages

DisplayPredictionResults ==
  /\ pc = "display"
  /\ session_state.logged_in
  /\ DisplayResults
  /\ pc' = "form"
  /\ UNCHANGED <<model, scaler, feature_names, lime_config, loaded, input_data, hr_input,
                 prediction, prediction_proba, input_df, requests, analysis_message,
                 first_fallback, session>>

Init ==
  /\ pc = "login"
  /\ model = None
  /\ scaler = None
  /\ feature_names = None
  /\ lime_config = None
  /\ explanation_cache = EmptyCache
  /\ input_data = <<>>
  /\ hr_input = <<>>
  /\ model_input = None
  /\ prediction = None
  /\ prediction_proba = None
  /\ input_df = None
  /\ explanation = None
  /\ prev_explanation = None
  /\ explainer_calls = 0
  /\ requests = 0
  /\ risk_factors = None
  /\ analysis_message = ""
  /\ first_fallback = None
  /\ files = None
  /\ metadata = None
  /\ extras = None
  /\ session_state = LoggedOut
  /\ last_login = None
  /\ stages = <<>>
  /\ described = <<>>

Next ==
  \/ LoginPage
  \/ LoadModelComponents
  \/ CreateHrInputForm
  \/ MakePrediction
  \/ DisplayPredictionResults

Spec == Init /\ [][Next]_vars

(***************************************************************************)
(* The application over every set of artifact files, with the quick        *)
(* profiles as its inputs.                                                 *)
(***************************************************************************)
LoadAnyFiles == Load(SUBSET ArtifactFiles)

\* The form filled by one of the quick-profile buttons.
QuickProfileForm == Form({profiles[p] : p \in DOMAIN profiles})

NextLoad ==
  \/ LoginPage
  \/ LoadAnyFiles
  \/ QuickProfileForm
  \/ MakePrediction
  \/ DisplayPredictionResults

SpecLoad == Init /\ [][NextLoad]_vars

(***************************************************************************)
(* main over visits: login, the application, logout, login again.  The     *)
(* installation holds every artifact or none; the inputs are the quick     *)
(* profiles.                                                               *)
(***************************************************************************)
LoadAllOrNone == Load({ArtifactFiles, {}})

NextLogin ==
  \/ LoginPage
  \/ Logout
  \/ LoadAllOrNone
  \/ QuickProfileForm
  \/ MakePrediction
  \/ DisplayPredictionResults

SpecLogin == Init /\ [][NextLogin]_vars

(***************************************************************************)
(* The functions called on their own, in fallback mode: the conversion,    *)
(* prepare_model_input and make_prediction applied to one profile and one  *)
(* feature list.                                                           *)
(***************************************************************************)
CallNormalize ==
  /\ pc = "call_normalize"
  /\ hr_input' = Normalize(input_data)
  /\ stages' = <<"normalize">>
  /\ pc' = "call_build"
  /\ UNCHANGED <<components, input_data, results, explained, requests, shown, first_fallback,
                 session, described>>

CallBuild ==
  /\ pc = "call_build"
  /\ model_input' = Some(prepare_model_input(hr_input, feature_names))
  /\ stages' = stages \o <<"build">>
  /\ pc' = "call_predict"
  /\ UNCHANGED <<components, input_data, hr_input, prediction, prediction_proba, input_df,
                 explained, requests, shown, first_fallback, session, described>>

CallPredict ==
  /\ pc = "call_predict"
  /\ LET r == make_prediction(model, scaler, hr_input, feature_names)
     IN  /\ prediction' = r.prediction
         /\ prediction_proba' = r.prediction_proba
         /\ input_df' = r.input_df
         /\ first_fallback' =
              IF model = None /\ first_fallback = None
                THEN Some([profile |-> hr_input, prediction |-> r.prediction,
                           prediction_proba |-> r.prediction_proba])
                ELSE first_fallback
  /\ stages' = stages \o PredictionStages(model, scaler, hr_input, feature_names)
  /\ pc' = "returned"
  /\ UNCHANGED <<components, input_data, hr_input, model_input, explained, requests, shown,
                 session, described>>

\* display_prediction_results called with the prediction make_prediction returned.
CallDisplay ==
  /\ pc = "returned"
  /\ DisplayResults
  /\ pc' = "displayed"
  /\ UNCHANGED <<model, scaler, feature_names, lime_config, loaded, input_data, hr_input,
                 prediction, prediction_proba, input_df, requests, analysis_message,
                 first_fallback, session>>

InitCalls ==
  /\ pc = "call_normalize"
  /\ model = None
  /\ scaler = None
  /\ feature_names \in {Some(l) : l \in FeatureLists}
  /\ lime_config = None
  /\ explanation_cache = EmptyCache
  /\ input_data \in UnitInputs
  /\ hr_input = <<>>
  /\ model_input = None
  /\ prediction = None
  /\ prediction_proba = None
  /\ input_df = None
  /\ explanation = None
  /\ prev_explanation = None
  /\ explainer_calls = 0
  /\ requests = 0
  /\ risk_factors = None
  /\ analysis_message = ""
  /\ first_fallback = None
  /\ files = None
  /\ metadata = None
  /\ extras = None
  /\ session_state = LoggedOut
  /\ last_login = None
  /\ stages = <<>>
  /\ described = <<>>

NextCalls == CallNormalize \/ CallBuild \/ CallPredict \/ CallDisplay

SpecCalls == InitCalls /\ [][NextCalls]_vars

(***************************************************************************)
(* The functions called on their own on two profiles, one after the other. *)
(***************************************************************************)
\* Profiles of at most two items over the fallback's keys, in both orders, and the
\* single-item profiles over EnvironmentSatisfaction.
PairInputs ==
  UNION {DictsOver(CoreKeys, n) : n \in {0, 1, 2}}
    \cup DictsOver({"EnvironmentSatisfaction"}, 1)

\* The caller goes on to a second profile once the first has been displayed.
CallAgain ==
  /\ pc = "displayed"
  /\ prev_explanation = None
  /\ input_data' \in PairInputs
  /\ hr_input' = <<>>
  /\ model_input' = None
  /\ prediction' = None
  /\ prediction_proba' = None
  /\ input_df' = None
  /\ risk_factors' = None
  /\ stages' = <<>>
  /\ described' = <<>>
  /\ pc' = "call_normalize"
  /\ UNCHANGED <<components, explained, requests, analysis_message, first_fallback, session>>

InitPairs ==
  /\ pc = "call_normalize"
  /\ model = None
  /\ scaler = None
  /\ feature_names = Some(FullColumns)
  /\ lime_config = None
  /\ explanation_cache = EmptyCache
  /\ input_data \in PairInputs
  /\ hr_input = <<>>
  /\ model_input = None
  /\ prediction = None
  /\ prediction_proba = None
  /\ input_df = None
  /\ explanation = None
  /\ prev_explanation = None
  /\ explainer_calls = 0
  /\ requests = 0
  /\ risk_factors = None
  /\ analysis_message = ""
  /\ first_fallback = None
  /\ files = None
  /\ metadata = None
  /\ extras = None
  /\ session_state = LoggedOut
  /\ last_login = None
  /\ stages = <<>>
  /\ described = <<>>

NextPairs == CallNormalize \/ CallBuild \/ CallPredict \/ CallDisplay \/ CallAgain

SpecPairs == InitPairs /\ [][NextPairs]_vars

(***************************************************************************)
(* clean_lime_explanation called on its own on one descriptor and weight.  *)
(***************************************************************************)
\* Columns of a trained model: the full list and three one-hot columns that
\* feature_mapping has no key for.
DescriptorColumns ==
  Range(FullColumns) \cup {"Department_Sales", "EducationField_Medical", "JobRole_Manager"}

\* The descriptors the explainer's quartile discretizer writes for a column: two
\* one-sided and one two-sided.
OneSided(col) == {col \o " <= 0.50", col \o " > 1.20"}

TwoSided(col) == {"0.50 < " \o col \o " <= 1.20"}

\* The same with the sign of the first split in a one-sided descriptor.
WithSign(col) == {col \o " " \o LessEqualSign \o " 0.50"}

Descriptors == UNION {OneSided(c) \cup TwoSided(c) \cup WithSign(c) : c \in DescriptorColumns}

\* Signed weights in thousandths, on and next to the two thresholds.
Weights == {0 - 81, 0 - 80, 0 - 79, 0 - 51, 0 - 50, 0 - 49, 0, 49, 50, 51, 79, 80, 81}

\* One item of an explainer's as_list(), as create_lime_explanation returns it.
AsListOf(feature_text, value) ==
  [profile |-> <<>>, features |-> <<feature_text>>, values |-> <<value>>, steps |-> <<>>,
   invoked |-> 0, instance |-> None, caught |-> FALSE, propagated |-> FALSE,
   input_key |-> None, calls_before |-> 0]

CallClean ==
  /\ pc = "call_clean"
  /\ described' = <<clean_lime_explanation(explanation[1].features[1],
                                           explanation[1].values[1])>>
  /\ pc' = "cleaned"
  /\ UNCHANGED <<components, input_data, hr_input, results, explained, requests, shown,
                 first_fallback, session, stages>>

InitClean ==
  /\ pc = "call_clean"
  /\ model = None
  /\ scaler = None
  /\ feature_names = Some(FullColumns)
  /\ lime_config = None
  /\ explanation_cache = EmptyCache
  /\ input_data = <<>>
  /\ hr_input = <<>>
  /\ model_input = None
  /\ prediction = None
  /\ prediction_proba = None
  /\ input_df = None
  /\ explanation \in {Some(AsListOf(d, w)) : d \in Descriptors, w \in Weights}
  /\ prev_explanation = None
  /\ explainer_calls = 0
  /\ requests = 0
  /\ risk_factors = None
  /\ analysis_message = ""
  /\ first_fallback = None
  /\ files = None
  /\ metadata = None
  /\ extras = None
  /\ session_state = LoggedOut
  /\ last_login = None
  /\ stages = <<>>
  /\ described = <<>>

NextClean == CallClean

SpecClean == InitClean /\ [][NextClean]_vars

(***************************************************************************)
(* Properties.                                                             *)
(***************************************************************************)
\* The value a frame holds in the column of that name.
ColValue(frame, name) == frame.row[CHOOSE i \in 1..Len(frame.cols) : frame.cols[i] = name]

HasCol(frame, name) == name \in Range(frame.cols)

Normalized == pc \in {"call_build", "call_predict", "returned"}

Returned == pc = "returned"

\* P(leave) and the label of the prediction last made.
Risk == prediction_proba[1][2]

Label == prediction[1]

\* C1: once the conversion has run, every categorical item of input_data appears in
\* hr_input with exactly the code its options mapping gives the label, and with 0 when
\* the label is no key of the mapping (MaritalStatus "Menikah" is 1, "unknown" is 0).
C1_NormalizeCodes ==
  Normalized =>
    \A i \in 1..Len(input_data) :
      LET k == input_data[i][1]
          v == input_data[i][2]
      IN  k \in CategoricalKeys =>
            /\ Has(hr_input, k)
            /\ v \in DOMAIN hr_features[k].options
                 => Lookup(hr_input, k) = hr_features[k].options[v]
            /\ v \notin DOMAIN hr_features[k].options => Lookup(hr_input, k) = 0
            /\ (k = "MaritalStatus" /\ v = "Menikah") => Lookup(hr_input, k) = 1

C1_Witness ==
  /\ Normalized
  /\ input_data = << <<"MaritalStatus", UnknownLabel>> >>
  /\ hr_input = << <<"MaritalStatus", 0>> >>

\* C2: the frame prepare_model_input returns has exactly the columns of the feature
\* list, in the feature list's order, and one value per column.
C2_ColumnOrder ==
  model_input # None =>
    /\ model_input[1].cols = feature_names[1]
    /\ Len(model_input[1].row) = Len(feature_names[1])

\* A profile whose keys were inserted in another order than the columns they fill.
C2_Witness ==
  /\ model_input # None
  /\ Len(hr_input) = 3
  /\ hr_input[1][1] = "WorkLifeBalance"
  /\ hr_input[2][1] = "JobSatisfaction"
  /\ feature_names = Some(FullColumns)
  /\ model_input[1].cols = FullColumns

\* C3: for the empty profile the frame is zero in every column.
C3_EmptyProfileAllZero ==
  (model_input # None /\ hr_input = <<>>) =>
    \A i \in 1..Len(model_input[1].row) : model_input[1].row[i] = 0

\* C4: with both marital-status indicators among the columns they are never both 1; for
\* a profile with MaritalStatus code 1 Married is 1 and Single 0, with code 0 Single is 1
\* and Married 0, with code 2 both are 0.
C4_MaritalOneHot ==
  (/\ model_input # None
   /\ HasCol(model_input[1], "MaritalStatus_Married")
   /\ HasCol(model_input[1], "MaritalStatus_Single")) =>
    LET married == ColValue(model_input[1], "MaritalStatus_Married")
        single == ColValue(model_input[1], "MaritalStatus_Single")
    IN  /\ ~(married = 1 /\ single = 1)
        /\ Has(hr_input, "MaritalStatus") =>
             LET code == Lookup(hr_input, "MaritalStatus")
             IN  /\ code = 1 => (married = 1 /\ single = 0)
                 /\ code = 0 => (married = 0 /\ single = 1)
                 /\ code = 2 => (married = 0 /\ single = 0)

C4_Witness ==
  /\ model_input # None
  /\ HasCol(model_input[1], "MaritalStatus_Married")
  /\ HasCol(model_input[1], "MaritalStatus_Single")
  /\ Has(hr_input, "MaritalStatus")
  /\ Lookup(hr_input, "MaritalStatus") = 2
  /\ ColValue(model_input[1], "MaritalStatus_Married") = 0
  /\ ColValue(model_input[1], "MaritalStatus_Single") = 0

\* Four times the unclamped risk of the claim's formula, in thousandths:
\* 4 * (0.3 + 0.2 * OverTime) + 0.3 * (4 - JobSatisfaction) + 0.2 * (4 - WorkLifeBalance).
ClaimedRisk4(p) ==
  4 * (300 + 200 * Get(p, "OverTime", 0))
    + 300 * (4 - Get(p, "JobSatisfaction", 3)) + 200 * (4 - Get(p, "WorkLifeBalance", 3))

\* C5: without a model the risk is the claim's formula clamped to [0.05, 0.95], and the
\* label is leave exactly when the risk exceeds 0.5.
C5_FallbackFormula ==
  Returned =>
    /\ 4 * Risk = (IF ClaimedRisk4(hr_input) < 4 * 50 THEN 4 * 50
                   ELSE IF ClaimedRisk4(hr_input) > 4 * 950 THEN 4 * 950
                   ELSE ClaimedRisk4(hr_input))
    /\ Label = 1 <=> Risk > 500

\* A missing WorkLifeBalance read as 3, and a risk of exactly 0.5 labelled stay.
C5_Witness ==
  /\ Returned
  /\ ~Has(hr_input, "WorkLifeBalance")
  /\ Has(hr_input, "JobSatisfaction")
  /\ Risk = 500
  /\ Label = 0

\* C6: the fallback returns a pair [P(stay), P(leave)] of values in [0, 1] that sum to 1,
\* and the label is leave exactly when P(leave) > 0.5.
C6_ProbabilityPair ==
  Returned =>
    /\ Len(prediction_proba[1]) = 2
    /\ \A i \in 1..2 : prediction_proba[1][i] >= 0 /\ prediction_proba[1][i] <= Milli
    /\ prediction_proba[1][1] + prediction_proba[1][2] = Milli
    /\ Label = 1 <=> prediction_proba[1][2] > Milli \div 2

C6_Witness ==
  /\ Returned
  /\ Label = 1
  /\ prediction_proba[1] = <<50, 950>>

\* The application in demo mode has made its prediction for the scenario's profile.
FallbackMadeFor(scenario) ==
  /\ model = None
  /\ input_data = FormDict(scenario)
  /\ prediction # None

\* C7 as stated: in scenario 1 the fallback risk reaches the 0.95 cap and the label is
\* leave.
C7_Scenario1ReachesCap == FallbackMadeFor(Scenario1) => (Risk >= RiskCap /\ Label = 1)

\* C7 as amended: in scenario 1 the fallback risk is 0.875, below the cap, and the label
\* is leave.
C7_Scenario1 == FallbackMadeFor(Scenario1) => (Risk = 875 /\ Risk < RiskCap /\ Label = 1)

C7_Witness == FallbackMadeFor(Scenario1) /\ pc = "display" /\ Label = 1

\* C8 as stated: in scenario 2 the fallback risk is at or near the 0.05 floor (within
\* 0.05 of it) and the label is stay.
C8_Scenario2NearFloor ==
  FallbackMadeFor(Scenario2) => (Risk <= 2 * RiskFloor /\ Label = 0)

\* C8 as amended: in scenario 2 the fallback risk is 0.3, the heuristic's base term, and
\* the label is stay.
C8_Scenario2 == FallbackMadeFor(Scenario2) => (Risk = BaseRisk /\ Label = 0)

C8_Witness == FallbackMadeFor(Scenario2) /\ pc = "display" /\ Label = 0

\* C9: two consecutive calls of create_lime_explanation with the same profile invoke the
\* surrogate explainer at most once between them, and the second returns what the first
\* returned.
C9_SecondCallFromCache ==
  (/\ explanation # None
   /\ prev_explanation # None
   /\ explanation[1].profile = prev_explanation[1].profile) =>
    /\ explainer_calls - prev_explanation[1].calls_before <= 1
    /\ explanation[1].features = prev_explanation[1].features
    /\ explanation[1].values = prev_explanation[1].values

\* C10: when the cache holds an entry under the profile's key, the call returns that
\* entry's pair, does not invoke the explainer, and the lookup is its first step.
C10_LookupFirst ==
  (/\ explanation # None
   /\ CacheKey(explanation[1].profile) \in DOMAIN explanation_cache) =>
    /\ explanation[1].features = explanation_cache[CacheKey(explanation[1].profile)].features
    /\ explanation[1].values = explanation_cache[CacheKey(explanation[1].profile)].values
    /\ explanation[1].invoked = 0
    /\ explanation[1].steps[1] = "lookup"

\* The request's results are on the page: display_prediction_results has run for the
\* profile in hr_input.
Displayed == analysis_message = "selesai" /\ pc \in {"form", "displayed"}

\* The threshold rules a profile satisfies, as the flags they raise.
SatisfiedRules(p) ==
  {f \in {"Sering Lembur", "Kepuasan Kerja Rendah", "Work-Life Balance Buruk",
          "Tidak Ada Promosi 3+ Tahun", "Jarak Rumah Jauh", "Kenaikan Gaji Rendah",
          "Sering Perjalanan Dinas", "Kepuasan Lingkungan Kerja Rendah"} :
     \/ f = "Sering Lembur" /\ Lookup(p, "OverTime") = 1
     \/ f = "Kepuasan Kerja Rendah" /\ Lookup(p, "JobSatisfaction") <= 2
     \/ f = "Work-Life Balance Buruk" /\ Lookup(p, "WorkLifeBalance") <= 2
     \/ f = "Tidak Ada Promosi 3+ Tahun" /\ Lookup(p, "YearsSinceLastPromotion") >= 3
     \/ f = "Jarak Rumah Jauh" /\ Lookup(p, "DistanceFromHome") > 20
     \/ f = "Kenaikan Gaji Rendah" /\ Lookup(p, "PercentSalaryHike") < 10
     \/ f = "Sering Perjalanan Dinas" /\ Lookup(p, "BusinessTravel") = 2
     \/ f = "Kepuasan Lingkungan Kerja Rendah" /\ Lookup(p, "EnvironmentSatisfaction") <= 2}

\* C11: the risk flags shown for a request are exactly the threshold rules its normalized
\* profile satisfies, whatever the model, scaler, prediction and explanation are; the
\* form with DistanceFromHome 25, YearsSinceLastPromotion 3 and PercentSalaryHike 8 and
\* every other widget untouched raises exactly the distance, no-promotion and low-hike
\* flags.
C11_RiskFlags ==
  risk_factors # None =>
    /\ Range(risk_factors[1]) = SatisfiedRules(hr_input)
    /\ input_data = FormDict(Scenario3) =>
         Range(risk_factors[1]) =
           {"Jarak Rumah Jauh", "Tidak Ada Promosi 3+ Tahun", "Kenaikan Gaji Rendah"}

C11_Witness ==
  /\ risk_factors # None
  /\ input_data = FormDict(Scenario3)
  /\ model # None
  /\ Len(risk_factors[1]) = 3

\* C12: when a step of create_lime_explanation raises, the call returns ([], []) and
\* nothing leaves it, and the request still has its prediction on the page and its risk
\* flags computed.
C12_ExplainFailureNotFatal ==
  (/\ Displayed
   /\ explanation # None
   /\ explanation[1].caught \/ explanation[1].propagated) =>
    /\ explanation[1].features = <<>>
    /\ explanation[1].values = <<>>
    /\ ~explanation[1].propagated
    /\ prediction # None
    /\ risk_factors = Some(RiskFactors(hr_input))

C12_Witness ==
  /\ Displayed
  /\ explanation # None
  /\ explanation[1].caught
  /\ explanation[1].profile = hr_input
  /\ risk_factors # None
  /\ risk_factors[1] # <<>>

\* The scaler or the model raises on the vector built for the loaded feature list.
InferenceRaises ==
  /\ model # None
  /\ \/ scaler # None /\ scaler[1].n_features_in # Len(feature_names[1])
     \/ model[1].n_features_in # Len(feature_names[1])

\* C13: when the scaler or the model raises inside make_prediction, the call returns
\* (None, None, None), the request reports failure and ends, and no result is rendered,
\* no explanation is asked for and no risk flag is computed; failure is reported only
\* when no prediction was returned.
C13_InferenceFailureEndsRequest ==
  /\ (InferenceRaises /\ analysis_message # "") =>
       /\ analysis_message = "gagal"
       /\ pc = "form"
       /\ explanation = None
       /\ explainer_calls = 0
  /\ analysis_message = "gagal" =>
       /\ prediction = None
       /\ prediction_proba = None
       /\ input_df = None
       /\ risk_factors = None
  /\ pc = "display" => prediction # None

C13_Witness ==
  /\ InferenceRaises
  /\ analysis_message = "gagal"
  /\ requests = MaxRequests
  /\ explanation = None

C14_MissingArtifactsNotFatal ==
  files # None =>
    /\ ~(RequiredFiles \subseteq files[1]) =>
         /\ model = None /\ scaler = None /\ feature_names = None
         /\ metadata = Some(DemoMetadata)
         /\ explanation_cache = EmptyCache
         /\ lime_config = None
         /\ extras = Some(DefaultExtras)
         /\ analysis_message # "" =>
              /\ analysis_message = "selesai"
              /\ Risk = FallbackRisk(hr_input)
              /\ Label = FallbackLabel(FallbackRisk(hr_input))
    /\ RequiredFiles \subseteq files[1] =>
         /\ model # None /\ scaler # None /\ feature_names # None
         /\ metadata = Some(LoadedMetadata)
         /\ "lime_config.pkl" \notin files[1] => lime_config = None
         /\ "explanation_cache.pkl" \notin files[1] => explanation_cache = EmptyCache
         /\ "global_feature_importance.pkl" \notin files[1] =>
              extras[1].global_importance = None
         /\ "feature_descriptions.pkl" \notin files[1] =>
              extras[1].feature_descriptions = <<>>
         /\ "interpretability_metadata.pkl" \notin files[1] =>
              extras[1].interpretability_metadata = <<>>
         /\ "streamlit_helpers.pkl" \notin files[1] => extras[1].streamlit_helpers = <<>>

C14_Witness ==
  /\ files = Some(ArtifactFiles \ {"scaler.pkl"})
  /\ analysis_message = "selesai"
  /\ requests = MaxRequests
  /\ Label = 1

\* C16: hash_password is a function of the password alone (the SHA-256 hex digest);
\* verify_password(p, h) holds exactly when hash_password(p) = h; a submission of the
\* login form is accepted only when the name is a key of ADMIN_CREDENTIALS and the
\* password verifies against that entry's stored hash, and after a submission with an
\* unknown name or another password the session is not logged in.
C16_PasswordCheck ==
  /\ \A p \in Passwords : \A q \in Passwords :
       verify_password(p, Sha256Hex[q]) <=> (Sha256Hex[p] = Sha256Hex[q])
  /\ session_state.logged_in => last_login # None
  /\ last_login # None =>
       /\ session_state.logged_in <=>
            /\ last_login[1].username \in DOMAIN ADMIN_CREDENTIALS
            /\ Sha256Hex[last_login[1].password] =
                 ADMIN_CREDENTIALS[last_login[1].username].password_hash
       /\ session_state.logged_in <=>
            (last_login[1].username = "hr_admin" /\ last_login[1].password = "admin123")
       /\ session_state.logged_in => session_state.username = Some(last_login[1].username)

C16_Witness ==
  /\ ~session_state.logged_in
  /\ last_login # None
  /\ last_login[1].username = "hr_admin"
  /\ last_login[1].password = ADMIN_CREDENTIALS["hr_admin"].password_hash
  /\ files # None

\* The conversion loop has run: hr_input is the normalized input_data.
NormalizeDone == pc \in {"call_build", "call_predict", "returned", "displayed"}

\* C17: the normalized profile has the keys of the input profile and no other, and the
\* value of every numeric-kind feature is the input's value, inside the feature's
\* declared range or not.
C17_NormalizeFrame ==
  NormalizeDone =>
    /\ Len(hr_input) = Len(input_data)
    /\ \A i \in 1..Len(input_data) :
         /\ hr_input[i][1] = input_data[i][1]
         /\ input_data[i][1] \in NumericKeys => hr_input[i][2] = input_data[i][2]

C17_Witness ==
  /\ NormalizeDone
  /\ input_data = << <<"Age", hr_features["Age"].max + 1>> >>
  /\ hr_input = input_data

\* The direct features and the synthesized indicator columns.
DirectFeatures ==
  {"Age", "MonthlyIncome", "YearsAtCompany", "YearsInCurrentRole", "YearsSinceLastPromotion",
   "DistanceFromHome", "PercentSalaryHike", "JobLevel", "StockOptionLevel", "JobSatisfaction",
   "WorkLifeBalance", "EnvironmentSatisfaction", "PerformanceRating"}

IndicatorColumns ==
  {"Gender_Male", "MaritalStatus_Married", "MaritalStatus_Single", "OverTime_Yes",
   "BusinessTravel_Travel_Frequently", "BusinessTravel_Travel_Rarely"}

\* C18: every direct feature that is a key of the normalized profile and a column of the
\* feature list has the profile's value in its column of the built frame.
C18_DirectCopy ==
  model_input # None =>
    \A k \in DirectFeatures :
      (Has(hr_input, k) /\ HasCol(model_input[1], k)) =>
        ColValue(model_input[1], k) = Lookup(hr_input, k)

C18_Witness ==
  /\ model_input # None
  /\ model_input[1].cols = FullColumns
  /\ input_data = profiles["Karyawan Biasa"]
  /\ ColValue(model_input[1], "YearsAtCompany") = 5
  /\ ColValue(model_input[1], "YearsInCurrentRole") = 2
  /\ ColValue(model_input[1], "MonthlyIncome") = 5000

\* C19: in the built frame every column that is neither a direct feature the profile
\* holds nor an indicator column is 0, and the build returns a frame over exactly the
\* feature list whatever columns it cannot map.
C19_ZeroFill ==
  /\ model_input # None =>
       \A i \in 1..Len(model_input[1].cols) :
         LET col == model_input[1].cols[i]
         IN  (/\ col \notin IndicatorColumns
              /\ ~(col \in DirectFeatures /\ Has(hr_input, col))) =>
               model_input[1].row[i] = 0
  /\ pc \in {"call_predict", "returned", "displayed"} =>
       /\ model_input # None
       /\ model_input[1].cols = feature_names[1]
       /\ Len(model_input[1].row) = Len(feature_names[1])

C19_Witness ==
  /\ model_input # None
  /\ hr_input # <<>>
  /\ model_input[1].cols = <<"JobInvolvement", "JobSatisfaction">>
  /\ ~Has(hr_input, "JobSatisfaction")
  /\ model_input[1].row = <<0, 0>>

\* C20: in the built frame Gender_Male is 1 exactly when the Gender code is 1,
\* OverTime_Yes exactly when the OverTime code is 1, BusinessTravel_Travel_Frequently
\* exactly when the BusinessTravel code is 2 and BusinessTravel_Travel_Rarely exactly
\* when it is 1, a missing key counting as code 0; every indicator is 0 or 1 and the two
\* business-travel indicators are never both 1.
C20_IndicatorSynthesis ==
  model_input # None =>
    LET f == model_input[1]
        Is(col, key, code) ==
          HasCol(f, col) => (ColValue(f, col) = 1 <=> Get(hr_input, key, 0) = code)
    IN  /\ Is("Gender_Male", "Gender", 1)
        /\ Is("OverTime_Yes", "OverTime", 1)
        /\ Is("BusinessTravel_Travel_Frequently", "BusinessTravel", 2)
        /\ Is("BusinessTravel_Travel_Rarely", "BusinessTravel", 1)
        /\ \A col \in IndicatorColumns : HasCol(f, col) => ColValue(f, col) \in {0, 1}
        /\ (/\ HasCol(f, "BusinessTravel_Travel_Frequently")
            /\ HasCol(f, "BusinessTravel_Travel_Rarely")) =>
             ~(/\ ColValue(f, "BusinessTravel_Travel_Frequently") = 1
               /\ ColValue(f, "BusinessTravel_Travel_Rarely") = 1)

C20_Witness ==
  /\ model_input # None
  /\ model_input[1].cols = FullColumns
  /\ input_data = profiles["Karyawan Berisiko"]
  /\ ColValue(model_input[1], "BusinessTravel_Travel_Frequently") = 1
  /\ ColValue(model_input[1], "BusinessTravel_Travel_Rarely") = 0
  /\ ColValue(model_input[1], "OverTime_Yes") = 1
  /\ ColValue(model_input[1], "Gender_Male") = 0

\* Two calls of create_lime_explanation have computed their cache keys.
TwoKeys ==
  /\ prev_explanation # None
  /\ explanation # None
  /\ prev_explanation[1].input_key # None
  /\ explanation[1].input_key # None

\* C21: two profiles get the same cache key exactly when they hold the same set of
\* (key, value) pairs: the order the keys were inserted in makes no difference, and a
\* difference in any key or any value makes the keys differ.
C21_CacheKeyOfContent ==
  TwoKeys =>
    (Range(prev_explanation[1].profile) = Range(explanation[1].profile)
       <=> prev_explanation[1].input_key = explanation[1].input_key)

C21_Witness ==
  /\ TwoKeys
  /\ prev_explanation[1].profile # explanation[1].profile
  /\ Len(explanation[1].profile) = 2
  /\ Range(prev_explanation[1].profile) = Range(explanation[1].profile)
  /\ prev_explanation[1].input_key = explanation[1].input_key

\* C22: the stages of a request run in the order normalize, build, predict, explain:
\* normalize is first, a build has run before every predict, and explain is invoked only
\* after a predict that returned a result.
C22_StageOrder ==
  /\ stages # <<>> => stages[1] = "normalize"
  /\ \A i \in 1..Len(stages) :
       stages[i] = "predict" => \E j \in 1..(i - 1) : stages[j] = "build"
  /\ \A i \in 1..Len(stages) :
       stages[i] = "explain" =>
         /\ \E j \in 1..(i - 1) : stages[j] = "predict"
         /\ prediction # None

\* clean_lime_explanation has returned for the descriptor and weight in explanation.
Cleaned == pc = "cleaned"

\* C23: the strength is "Sangat" exactly when |w| > 0.08, "Cukup" exactly when
\* 0.05 < |w| <= 0.08 and "Sedikit" exactly when |w| <= 0.05, for the weight and for its
\* negation alike.
C23_StrengthTiers ==
  Cleaned =>
    LET w == explanation[1].values[1]
        tier == described[1].strength
    IN  /\ described[1].value = w
        /\ tier \in {"Sangat", "Cukup", "Sedikit"}
        /\ tier = "Sangat" <=> (w > 80 \/ w < 0 - 80)
        /\ tier = "Cukup" <=> ((50 < w /\ w <= 80) \/ (0 - 80 <= w /\ w < 0 - 50))
        /\ tier = "Sedikit" <=> (0 - 50 <= w /\ w <= 50)
        /\ tier = Strength(0 - w)

C23_Witness ==
  /\ Cleaned
  /\ explanation[1].values[1] = 0 - 80
  /\ described[1].strength = "Cukup"

\* C24: for every descriptor of a model column, one-sided or two-sided, the base feature
\* is that column's name, and when the name is a key of the lookup table the displayed
\* label is that key's own label.
C24_DescriptorRecovered ==
  Cleaned =>
    \A col \in DescriptorColumns :
      explanation[1].features[1] \in OneSided(col) \cup TwoSided(col) =>
        /\ described[1].base_feature = col
        /\ Has(friendly_names, col) => described[1].clean_name = Lookup(friendly_names, col)

\* The cache load_model_components returns for the files in present.
LoadedCache(present) ==
  IF RequiredFiles \subseteq present /\ "explanation_cache.pkl" \in present
    THEN PrecomputedCache ELSE EmptyCache

\* C25: whatever the calls of create_lime_explanation so far (hits, misses with a computed
\* explanation, failures), the explanation cache is the one loaded at process start: no
\* entry added, replaced or removed.
C25_CacheNeverChanges ==
  /\ files = None => explanation_cache = EmptyCache
  /\ files # None => explanation_cache = LoadedCache(files[1])

\* A computed explanation of a profile that is not in the loaded cache has been shown.
C25_Witness ==
  /\ pc = "form"
  /\ explanation # None
  /\ explanation[1].invoked = 1
  /\ explanation[1].features # <<>>
  /\ CacheKey(hr_input) \notin DOMAIN explanation_cache
  /\ explanation_cache = PrecomputedCache

\* A required artifact was missing when the components were loaded.
DemoMode == files # None /\ ~(RequiredFiles \subseteq files[1])

\* C26: in demo mode the model, the scaler and the feature list are None and the cache is
\* empty; every request is served and ends with a prediction and the risk flags of its
\* profile, and with an empty explanation: no feature, no weight, no factor line.
C26_DemoExplanationEmpty ==
  /\ DemoMode =>
       /\ model = None
       /\ scaler = None
       /\ feature_names = None
       /\ explanation_cache = EmptyCache
       /\ analysis_message \in {"", "selesai"}
  /\ (DemoMode /\ pc = "display") => (prediction # None /\ prediction_proba # None)
  /\ (DemoMode /\ Displayed) =>
       /\ prediction # None
       /\ prediction_proba # None
       /\ explanation # None
       /\ explanation[1].profile = hr_input
       /\ explanation[1].features = <<>>
       /\ explanation[1].values = <<>>
       /\ explanation[1].invoked = 0
       /\ described = <<>>
       /\ risk_factors = Some(RiskFactors(hr_input))

\* A second demo-mode request shown, in an installation that has the cache file but not
\* the model.
C26_Witness ==
  /\ DemoMode
  /\ Displayed
  /\ "explanation_cache.pkl" \in files[1]
  /\ "logistic_regression_model.pkl" \notin files[1]
  /\ requests = MaxRequests
  /\ prediction # None
  /\ explanation[1].features = <<>>
  /\ risk_factors[1] # <<>>

\* The label given for key k is no key of the options mapping of k.
UnknownGiven(k) ==
  /\ Has(input_data, k)
  /\ Lookup(input_data, k) \notin DOMAIN hr_features[k].options

\* C27: the fallback risk of a normalized profile is at least 0.3, so never the 0.05
\* floor; when the OverTime, JobSatisfaction and WorkLifeBalance labels given are all
\* recognized it is at most 0.875; the 0.95 cap is reached only with an unrecognized
\* JobSatisfaction or WorkLifeBalance label, encoded as 0.
C27_FallbackRange ==
  Returned =>
    /\ Risk >= 300
    /\ Risk # RiskFloor
    /\ (\A k \in CoreKeys : ~UnknownGiven(k)) => Risk <= 875
    /\ Risk >= RiskCap =>
         \E k \in {"JobSatisfaction", "WorkLifeBalance"} :
           UnknownGiven(k) /\ Lookup(hr_input, k) = 0

\* The highest risk of recognized labels, and the cap reached with an unknown one.
C27_Witness ==
  /\ Returned
  /\ \/ /\ \A k \in CoreKeys : Has(input_data, k) /\ ~UnknownGiven(k)
        /\ Risk = 875
     \/ /\ UnknownGiven("JobSatisfaction")
        /\ ~UnknownGiven("WorkLifeBalance")
        /\ Risk = RiskCap

\* The satisfaction keys and the flag each one's threshold rule raises.
SatisfactionFlag ==
  [JobSatisfaction |-> "Kepuasan Kerja Rendah",
   WorkLifeBalance |-> "Work-Life Balance Buruk",
   EnvironmentSatisfaction |-> "Kepuasan Lingkungan Kerja Rendah"]

\* Profiles p and q have the same keys and the same value under every key but k.
SameExcept(p, q, k) ==
  /\ DictKeys(p) = DictKeys(q)
  /\ \A j \in DictKeys(p) \ {k} : Lookup(p, j) = Lookup(q, j)

\* Profile p holds the code of an unrecognized label under k, q that of a recognized one,
\* and they agree elsewhere.
UnknownAgainstValid(p, q, k) ==
  /\ Has(p, k)
  /\ Lookup(p, k) = 0
  /\ Has(q, k)
  /\ Lookup(q, k) \in 1..4
  /\ SameExcept(p, q, k)

\* C28: a JobSatisfaction, WorkLifeBalance or EnvironmentSatisfaction label outside the
\* schema is encoded as 0 and raises the key's low-satisfaction flag, and for
\* JobSatisfaction and WorkLifeBalance the fallback risk of the profile is at least the
\* risk of the same profile with any recognized label in its place.
C28_UnknownScoredWorst ==
  /\ NormalizeDone =>
       \A k \in DOMAIN SatisfactionFlag : UnknownGiven(k) => Lookup(hr_input, k) = 0
  /\ (pc = "displayed" /\ risk_factors # None) =>
       \A k \in DOMAIN SatisfactionFlag :
         UnknownGiven(k) => SatisfactionFlag[k] \in Range(risk_factors[1])
  /\ (first_fallback # None /\ prediction # None /\ pc \in {"returned", "displayed"}) =>
       \A k \in {"JobSatisfaction", "WorkLifeBalance"} :
         /\ UnknownAgainstValid(first_fallback[1].profile, hr_input, k)
              => first_fallback[1].prediction_proba[1][2] >= Risk
         /\ UnknownAgainstValid(hr_input, first_fallback[1].profile, k)
              => Risk >= first_fallback[1].prediction_proba[1][2]

\* An unknown JobSatisfaction label after the best recognized one with overtime: the
\* second risk is strictly higher, and the flag is on the page.
C28_Witness ==
  /\ pc = "displayed"
  /\ first_fallback # None
  /\ UnknownGiven("JobSatisfaction")
  /\ UnknownAgainstValid(hr_input, first_fallback[1].profile, "JobSatisfaction")
  /\ Has(hr_input, "OverTime")
  /\ Risk > first_fallback[1].prediction_proba[1][2]
  /\ "Kepuasan Kerja Rendah" \in Range(risk_factors[1])

\* main has called main_app: the run is somewhere in main_app's body.
MainAppRendered == pc \in {"load", "form", "ready", "display"}

\* The submission in login is one login_page accepts.
AcceptedLogin(login) ==
  /\ login[1].username \in DOMAIN ADMIN_CREDENTIALS
  /\ verify_password(login[1].password, ADMIN_CREDENTIALS[login[1].username].password_hash)

\* C29: main_app is rendered exactly when logged_in is true and login_page otherwise; a
\* session that is not logged in has no username, role or permissions; the flag becomes
\* true only in a step of login_page whose submission is accepted, and a step that makes
\* it false clears username, role and permissions and leaves the run at login_page.
C29_SessionGate ==
  /\ [](/\ MainAppRendered <=> session_state.logged_in
        /\ pc = "login" <=> ~session_state.logged_in
        /\ ~session_state.logged_in =>
             /\ session_state.username = None
             /\ session_state.user_role = None
             /\ session_state.user_permissions = <<>>)
  /\ [][/\ (~session_state.logged_in /\ session_state'.logged_in) =>
             /\ pc = "login"
             /\ last_login' # None
             /\ AcceptedLogin(last_login')
             /\ MainAppRendered'
        /\ (session_state.logged_in /\ ~session_state'.logged_in) =>
             /\ MainAppRendered
             /\ pc' = "login"
             /\ session_state'.username = None
             /\ session_state'.user_role = None
             /\ session_state'.user_permissions = <<>>]_vars

\* Logged out after a request was served: the login page is shown again, the session
\* holds no user, and the loaded components are still there.
C29_Witness ==
  /\ pc = "login"
  /\ ~session_state.logged_in
  /\ session_state.display_name # None
  /\ session_state.username = None
  /\ session_state.user_permissions = <<>>
  /\ last_login = None
  /\ requests > 0
  /\ files # None

\* The surrogate explainer ran for the request whose results are in the state.
ExplainedHere ==
  /\ Displayed
  /\ explanation # None
  /\ explanation[1].profile = hr_input
  /\ explanation[1].instance # None

\* C30: when the surrogate explainer has run for a request, the instance it was handed
\* is the vector make_prediction handed to the classifier for that request: the frame
\* built from the same profile and feature list, through the same scaler; and neither
\* a step of make_prediction (from "ready" on) nor one of display_prediction_results
\* changes the profile.
C30_SameInstance ==
  /\ [](ExplainedHere =>
          /\ input_df # None
          /\ explanation[1].instance = input_df
          /\ input_df[1] = ExplainedInstance(scaler,
                                             prepare_model_input(hr_input, feature_names)))
  /\ [][((pc = "ready" /\ pc' # "ready") \/ pc = "display") =>
          (hr_input' = hr_input /\ input_data' = input_data)]_vars

\* An explanation computed on a scaled instance that differs from the frame as built.
C30_Witness ==
  /\ ExplainedHere
  /\ explanation[1].invoked = 1
  /\ scaler # None
  /\ input_df = explanation[1].instance
  /\ input_df[1] # prepare_model_input(hr_input, feature_names).row
  /\ hr_input # <<>>

====
